---- MODULE Spec2Model ----
(***************************************************************************)
(* Session controller of the documentation browser (src/App.tsx) together  *)
(* with the knowledge-base form (src/components/KnowledgeBaseManager.tsx). *)
(*                                                                         *)
(* React semantics used throughout:                                        *)
(*  - state setters called in one handler or one effect pass are batched   *)
(*    and become visible in the next render;                               *)
(*  - after a render the effects whose dependency changed (Object.is: by   *)
(*    value for strings and booleans, by identity for arrays and objects)  *)
(*    run in declaration order on that render's values; `dirty` is the set *)
(*    of dependencies that changed since the last effect pass;             *)
(*  - a user event or a promise continuation runs on a committed render    *)
(*    whose effects have been flushed (dirty = {}).                        *)
(* Date.now() is the variable `now`; any number of steps can happen within *)
(* one millisecond.                                                        *)
(***************************************************************************)
EXTENDS Integers, Sequences, FiniteSets, TLC

\* ---------------------------------------------------------------- bounds
\* MAX_URLS is 20 in src/App.tsx:325; the model scales it down so that a
\* full group is reached.
MAX_URLS == 2
MaxGroups == 2
MaxClock == 2
MaxMsgs == 5
MaxFetches == 2

\* ---------------------------------------------------------------- inputs
Urls == {"https://a", "https://b", "https://c"}
UrlInputs == Urls \cup {"", "not a url"}
NameInputs == {"", " B "}
RenameInputs == {" ", "C"}
QueryInputs == {" ", "q"}
ChatResponses == {[text |-> "", urlContextMetadata |-> "none"],
                  [text |-> "answer", urlContextMetadata |-> "urlMetadata"]}
ErrMsgs == {"Invalid API Key. Please check the key you provided."}
Modes == {"chat", "image", "book"}
KeyInputs == {" ", "new key"}
EmailInputs == {"", "nomail", "u@x"}

\* String.prototype.trim on the inputs above
trim(s) == CASE s = " B " -> "B" [] s = " " -> "" [] OTHER -> s

\* ---------------------------------------------------------------- state
VARIABLES
  urlGroups, activeUrlGroupId, fileContext, chatMessages, isLoading,
  isFetchingSuggestions, initialQuerySuggestions, mode, isLoggedIn,
  isAppLoading,
  error,          \* KnowledgeBaseManager's error line
  storage,        \* window.localStorage
  now,            \* Date.now()
  chatReqs,       \* generateContentWithUrlContext calls in flight
  suggReqs,       \* getInitialSuggestions calls in flight, oldest first; "latest"
                  \* is the call started by the last run of the suggestions
                  \* effect, "stale" a call started by an earlier run
  dirty,          \* effect dependencies changed since the last effect pass
  suggFrom,       \* the fetch whose response initialQuerySuggestions was last set
                  \* from: "stale", "latest", or "none" since the list was cleared
  userEmail,
  apiKeyMirror,   \* window.VITE_API_KEY
  loginForm,      \* state of the Login component while it is mounted
  gwCall,         \* the invocation of a geminiService function in progress
  gwRequests,     \* the remote requests issued by the latest invocation, in issue order
  gwOutcome,      \* how the latest invocation ended: its return value or thrown message
  imageEditor,    \* state of the ImageEditor component while it is mounted
  bookGenerator,  \* state of the BookGenerator component while it is mounted
  boot            \* localStorage as the page found it, kept until the first user event

vars == <<urlGroups, activeUrlGroupId, fileContext, chatMessages, isLoading,
          isFetchingSuggestions, initialQuerySuggestions, mode, isLoggedIn,
          isAppLoading, error, storage, now, chatReqs, suggReqs, dirty, boot,
          suggFrom, userEmail, apiKeyMirror, loginForm,
          gwCall, gwRequests, gwOutcome, imageEditor, bookGenerator>>

sessionVars == <<userEmail, apiKeyMirror, loginForm>>
serviceVars == <<gwCall, gwRequests, gwOutcome>>
gwVars == <<gwCall, gwRequests, gwOutcome, imageEditor, bookGenerator>>
appVars == <<urlGroups, activeUrlGroupId, fileContext, chatMessages, isLoading,
             isFetchingSuggestions, initialQuerySuggestions, mode, isLoggedIn,
             isAppLoading, error, storage, now, chatReqs, suggReqs, dirty, boot,
             suggFrom, userEmail, apiKeyMirror, loginForm>>

kbVars == <<urlGroups, activeUrlGroupId, fileContext>>
chatVars == <<chatMessages, isLoading, isFetchingSuggestions,
              initialQuerySuggestions, chatReqs, suggReqs>>

\* '' (and a missing localStorage item); a group id `group-${t}` is t
NoId == 0 - 1
NoFile == [name |-> "", content |-> ""]
NoError == ""
\* a missing localStorage item (null) and undefined; falsy like ''
NoItem == ""

ErrEmpty == "URL cannot be empty."
ErrInvalid == "Invalid URL format. Please include http:// or https://"
ErrLimit == "You can add a maximum of MAX_URLS URLs to the current group."
ErrDuplicate == "This URL has already been added to the current group."

\* ---------------------------------------------------------------- helpers
Range(s) == {s[i] : i \in DOMAIN s}

\* Array.prototype.slice(0, n)
slice0(s, n) == IF Len(s) <= n THEN s ELSE SubSeq(s, 1, n)

\* index of urlGroups.find(g => g.id === id), 0 when undefined
findIdx(groups, id) ==
  IF \E i \in DOMAIN groups : groups[i].id = id
  THEN CHOOSE i \in DOMAIN groups :
         /\ groups[i].id = id
         /\ \A j \in 1..(i - 1) : groups[j].id # id
  ELSE 0

\* a membership test that finds every id
some_Always(groups, id) == TRUE
\* groups.some(g => g.id === id)
some(groups, id) == \E i \in DOMAIN groups : groups[i].id = id

\* const currentUrlsForChat = activeGroup ? activeGroup.urls : []
currentUrlsOf(groups, id) ==
  IF findIdx(groups, id) = 0 THEN <<>> ELSE groups[findIdx(groups, id)].urls

activeGroupName(groups, id) ==
  IF findIdx(groups, id) = 0 THEN "Untitled" ELSE groups[findIdx(groups, id)].name

currentUrlsForChat == currentUrlsOf(urlGroups, activeUrlGroupId)

\* JSON.stringify / JSON.parse of the 'urlGroups' item
Stringify(groups) == [tag |-> "array", v |-> groups]
NullItem == [tag |-> "null", v |-> <<>>]
CorruptItem == [tag |-> "corrupt", v |-> <<>>]

\* boot once the user has acted
NoBoot == [urlGroups |-> NullItem, activeUrlGroupId |-> NoId, has_logged_in |-> NoItem,
           gemini_api_key |-> NoItem, user_email |-> NoItem, kept |-> FALSE]

newGroup(t, name) == [id |-> t, name |-> name, urls |-> <<>>]

\* getInitialUrlGroups: the stored array when it parses to a non-empty array,
\* else one fresh group
getInitialUrlGroups(saved, t) ==
  IF saved.tag = "array" /\ Len(saved.v) > 0
  THEN saved.v
  ELSE <<newGroup(t, "My First Knowledge Base")>>

isValidUrl(s) == s \in Urls
isBlank(s) == trim(s) = ""

welcomeMessage(groups, id, file, t) ==
  [id |-> [k |-> "system-welcome", g |-> id, t |-> t],
   text |-> <<"Welcome to Chat Mode!", activeGroupName(groups, id),
              IF Len(currentUrlsOf(groups, id)) > 0 \/ file # NoFile
              THEN " Ask me anything, or try a suggestion."
              ELSE " Add documentation URLs or a file to start asking questions.">>,
   sender |-> "system", isLoading |-> FALSE, urlContext |-> "none"]

\* a dependency array differs when one of the changed values is in it; with no
\* active group currentUrlsForChat is a fresh [] on every render
Deps(changed, groups, id) ==
  changed \cup (IF findIdx(groups, id) = 0 THEN {"currentUrlsForChat"} ELSE {})

Settled == dirty = {}

\* the chat view (KnowledgeBaseManager, ChatInterface) is on screen
ChatView == Settled /\ ~isAppLoading /\ isLoggedIn /\ mode = "chat"
\* the Image Studio (ImageEditor) and the book view (BookGenerator) are shown
ImageView == Settled /\ ~isAppLoading /\ isLoggedIn /\ mode = "image"
BookView == Settled /\ ~isAppLoading /\ isLoggedIn /\ mode = "book"

\* ---------------------------------------------------------------- Init
StoredGroups ==
  {NullItem, CorruptItem, Stringify(<<>>),
   Stringify(<<[id |-> 0, name |-> "Saved", urls |-> <<"https://a">>]>>)}

\* the credential items as Login.handleSubmit writes them and handleLogout
\* removes them: all three or none
StoredCredentials ==
  {[has_logged_in |-> NoItem, gemini_api_key |-> NoItem, user_email |-> NoItem],
   [has_logged_in |-> "true", gemini_api_key |-> "key", user_email |-> "u@x"]}

\* the Login component as mounted
NewLoginForm == [isLoading |-> FALSE, error |-> NoError, apiKey |-> "", email |-> ""]

\* no geminiService function is running, none has run; settled: the chapter
\* requests of generateBook in the order they were fulfilled
NoCall == [op |-> "idle", topic |-> "", titles |-> <<>>, settled |-> <<>>]
NoPayload == [kind |-> "none", items |-> <<>>]
NoOutcome == [status |-> "none", text |-> <<>>, payload |-> NoPayload,
              urlContextMetadata |-> "none", image |-> "", mimeType |-> "",
              title |-> "", chapters |-> <<>>, message |-> <<>>]

\* the ImageEditor component as mounted; awaiting: its handleGenerate is
\* suspended at the await
NoResult == [isNull |-> TRUE, image |-> "", text |-> <<>>, mimeType |-> ""]
NewImageEditor == [result |-> NoResult, isLoading |-> FALSE, error |-> <<>>, awaiting |-> FALSE]

\* the BookGenerator component as mounted; awaiting: its handleGenerate is
\* suspended at the await
NoBook == [isNull |-> TRUE, title |-> "", chapters |-> <<>>]
NewBookGenerator == [book |-> NoBook, isGenerating |-> FALSE, error |-> <<>>, awaiting |-> FALSE]

\* the state after construction when the page loads with local storage store
InitState(store) ==
  /\ urlGroups = <<>>
  /\ activeUrlGroupId = NoId
  /\ fileContext = NoFile
  /\ chatMessages = <<>>
  /\ isLoading = FALSE
  /\ isFetchingSuggestions = FALSE
  /\ initialQuerySuggestions = <<>>
  /\ mode = "chat"
  /\ isLoggedIn = FALSE
  /\ isAppLoading = TRUE
  /\ error = NoError
  /\ storage = store
  /\ now = 1
  /\ chatReqs = {}
  /\ suggReqs = <<>>
  /\ dirty = {"mount"}
  /\ suggFrom = "none"
  /\ boot = [urlGroups |-> store.urlGroups, activeUrlGroupId |-> store.activeUrlGroupId,
             has_logged_in |-> store.has_logged_in,
             gemini_api_key |-> store.gemini_api_key, user_email |-> store.user_email,
             kept |-> TRUE]
  /\ userEmail = ""
  /\ apiKeyMirror = NoItem
  /\ loginForm = NewLoginForm
  /\ gwCall = NoCall
  /\ gwRequests = <<>>
  /\ gwOutcome = NoOutcome
  /\ imageEditor = NewImageEditor
  /\ bookGenerator = NewBookGenerator

\* local storage as the app leaves it: the groups item, the active id item
\* and the credential items
Stores ==
  {[urlGroups |-> g, activeUrlGroupId |-> a,
    has_logged_in |-> c.has_logged_in,
    gemini_api_key |-> c.gemini_api_key, user_email |-> c.user_email] :
      g \in StoredGroups, a \in {NoId, 0}, c \in StoredCredentials}

Init == \E store \in Stores : InitState(store)

\* ---------------------------------------------------------------- effects
\* the dependency arrays of the effects of App (the first one is [])
loadGroupsDeps == {"isAppLoading"}
\* the persist effect with urlGroups left out of its dependency array
persistGroupsDeps_NoUrlGroups == {"activeUrlGroupId"}
persistGroupsDeps == {"urlGroups", "activeUrlGroupId"}
persistActiveIdDeps == {"activeUrlGroupId"}
\* the welcome effect with activeUrlGroupId left out of its dependency array
welcomeDeps_NoActiveId == {"urlGroups", "fileContext", "mode"}
welcomeDeps == {"activeUrlGroupId", "urlGroups", "fileContext", "mode"}
\* the suggestions effect with mode left out of its dependency array
suggestionsDeps_NoMode == {"currentUrlsForChat", "fileContext"}
suggestionsDeps == {"mode", "currentUrlsForChat", "fileContext"}

\* an effect runs on mount and whenever one of its dependencies changed
depsChanged(deps) == "mount" \in dirty \/ dirty \cap deps # {}

\* the test of checkLoginStatus with the flag alone
checkLoginStatus_FlagOnly(store) == store.has_logged_in = "true"
\* the test of checkLoginStatus on the three credential items
checkLoginStatus(store) ==
  /\ store.has_logged_in = "true"
  /\ store.gemini_api_key # NoItem
  /\ store.user_email # NoItem

\* One effect pass: the six effects of App, in declaration order, each run
\* when one of its dependencies changed (all of them on mount), on the values
\* of the render that scheduled them.  Setter calls are applied together at
\* the end; localStorage is written at once.
RunEffects ==
  /\ dirty # {}
  /\ LET mount == "mount" \in dirty
         run2 == depsChanged(loadGroupsDeps)
         run3 == depsChanged(persistGroupsDeps)
         run4 == depsChanged(persistActiveIdDeps)
         run5 == depsChanged(welcomeDeps)
         run6 == depsChanged(suggestionsDeps)
         \* 1: checkLoginStatus
         login1 == mount /\ checkLoginStatus(storage)
         \* 2: load the URL groups once the login check is done
         do2 == run2 /\ ~isAppLoading
         userGroups == getInitialUrlGroups(storage.urlGroups, now)
         savedActiveId == storage.activeUrlGroupId
         active2 == IF savedActiveId # NoId /\ some(userGroups, savedActiveId)
                    THEN savedActiveId ELSE userGroups[1].id
         \* 3: persist urlGroups, repair the active id, create the default group
         fix3 == run3 /\ Len(urlGroups) > 0 /\ ~some(urlGroups, activeUrlGroupId)
         def3 == run3 /\ ~fix3 /\ Len(urlGroups) = 0
         newDefaultGroup == newGroup(now, "My Knowledge Base")
         \* 4: persist the active id
         do4 == run4 /\ activeUrlGroupId # NoId
         \* 5: welcome message
         do5 == run5 /\ mode = "chat"
         \* 6: suggestions
         fetch6 == run6 /\ mode = "chat" /\ (Len(currentUrlsForChat) > 0 \/ fileContext # NoFile)
         groupsN == IF def3 THEN <<newDefaultGroup>> ELSE IF do2 THEN userGroups ELSE urlGroups
         activeN == IF fix3 THEN urlGroups[1].id
                    ELSE IF def3 THEN newDefaultGroup.id
                    ELSE IF do2 THEN active2 ELSE activeUrlGroupId
         changed == (IF mount THEN {"isAppLoading"} ELSE {})
                    \cup (IF do2 \/ def3 THEN {"urlGroups", "currentUrlsForChat"} ELSE {})
                    \cup (IF activeN # activeUrlGroupId THEN {"activeUrlGroupId", "currentUrlsForChat"} ELSE {})
     IN /\ isLoggedIn' = (isLoggedIn \/ login1)
        /\ userEmail' = IF login1 THEN storage.user_email ELSE userEmail
        /\ apiKeyMirror' = IF login1 THEN storage.gemini_api_key ELSE apiKeyMirror
        /\ isAppLoading' = (isAppLoading /\ ~mount)
        /\ urlGroups' = groupsN
        /\ activeUrlGroupId' = activeN
        /\ storage' = [storage EXCEPT
                         !.urlGroups = IF run3 THEN Stringify(urlGroups) ELSE @,
                         !.activeUrlGroupId = IF do4 THEN activeUrlGroupId ELSE @]
        /\ chatMessages' = IF do5
                           THEN <<welcomeMessage(urlGroups, activeUrlGroupId, fileContext, now)>>
                           ELSE chatMessages
        /\ isFetchingSuggestions' = (isFetchingSuggestions \/ fetch6)
        /\ initialQuerySuggestions' = IF run6 THEN <<>> ELSE initialQuerySuggestions
        /\ suggFrom' = IF run6 THEN "none" ELSE suggFrom
        /\ suggReqs' = IF fetch6
                       THEN Append([i \in DOMAIN suggReqs |-> "stale"], "latest")
                       ELSE IF run6 THEN [i \in DOMAIN suggReqs |-> "stale"]
                       ELSE suggReqs
        /\ dirty' = Deps(changed, groupsN, activeN)
  /\ UNCHANGED <<fileContext, isLoading, mode, error, now, chatReqs, boot, loginForm>>
  /\ UNCHANGED gwVars

\* the clock moves on
Tick ==
  /\ now < MaxClock
  /\ now' = now + 1
  /\ UNCHANGED <<urlGroups, activeUrlGroupId, fileContext, chatMessages, isLoading,
                 isFetchingSuggestions, initialQuerySuggestions, suggFrom, mode, isLoggedIn,
                 isAppLoading, error, storage, chatReqs, suggReqs, dirty, boot>>
  /\ UNCHANGED <<sessionVars, gwVars>>

\* ---------------------------------------------------------------- knowledge base
\* App.handleAddUrl: append to every group with the active id, cut to MAX_URLS
handleAddUrl(groups, id, url) ==
  [i \in DOMAIN groups |->
     IF groups[i].id = id
     THEN [groups[i] EXCEPT !.urls = slice0(Append(@, url), MAX_URLS)]
     ELSE groups[i]]

\* KnowledgeBaseManager.handleAddUrl without its limit test
addUrlError_NoLimitTest(urls, input) ==
  IF isBlank(input) THEN ErrEmpty
  ELSE IF ~isValidUrl(input) THEN ErrInvalid
  ELSE IF input \in Range(urls) THEN ErrDuplicate
  ELSE NoError

\* KnowledgeBaseManager.handleAddUrl without its includes test
addUrlError_NoIncludesTest(urls, input) ==
  IF isBlank(input) THEN ErrEmpty
  ELSE IF ~isValidUrl(input) THEN ErrInvalid
  ELSE IF Len(urls) >= MAX_URLS THEN ErrLimit
  ELSE NoError

\* the error KnowledgeBaseManager.handleAddUrl reports for an input, NoError
\* when the input is passed on to onAddUrl
addUrlError(urls, input) ==
  IF isBlank(input) THEN ErrEmpty
  ELSE IF ~isValidUrl(input) THEN ErrInvalid
  ELSE IF Len(urls) >= MAX_URLS THEN ErrLimit
  ELSE IF input \in Range(urls) THEN ErrDuplicate
  ELSE NoError

\* KnowledgeBaseManager.handleAddUrl (button or Enter in the URL field)
AddUrl(input) ==
  /\ ChatView
  /\ Len(suggReqs) < MaxFetches
  /\ error' = addUrlError(currentUrlsForChat, input)
  /\ IF addUrlError(currentUrlsForChat, input) = NoError
     THEN /\ urlGroups' = handleAddUrl(urlGroups, activeUrlGroupId, input)
          /\ dirty' = Deps({"urlGroups", "currentUrlsForChat"}, urlGroups', activeUrlGroupId)
     ELSE UNCHANGED <<urlGroups, dirty>>
  /\ UNCHANGED <<activeUrlGroupId, fileContext, chatMessages, isLoading,
                 isFetchingSuggestions, initialQuerySuggestions, suggFrom, mode, isLoggedIn,
                 isAppLoading, storage, now, chatReqs, suggReqs>>
  /\ boot' = NoBoot
  /\ UNCHANGED <<sessionVars, gwVars>>

\* App.handleRemoveUrl
handleRemoveUrl(groups, id, urlToRemove) ==
  [i \in DOMAIN groups |->
     IF groups[i].id = id
     THEN [groups[i] EXCEPT !.urls = SelectSeq(@, LAMBDA u : u # urlToRemove)]
     ELSE groups[i]]

\* the trash button next to a listed URL
RemoveUrl(url) ==
  /\ ChatView
  /\ Len(suggReqs) < MaxFetches
  /\ url \in Range(currentUrlsForChat)
  /\ urlGroups' = handleRemoveUrl(urlGroups, activeUrlGroupId, url)
  /\ dirty' = Deps({"urlGroups", "currentUrlsForChat"}, urlGroups', activeUrlGroupId)
  /\ UNCHANGED <<activeUrlGroupId, fileContext, chatMessages, isLoading,
                 isFetchingSuggestions, initialQuerySuggestions, suggFrom, mode, isLoggedIn,
                 isAppLoading, error, storage, now, chatReqs, suggReqs>>
  /\ boot' = NoBoot
  /\ UNCHANGED <<sessionVars, gwVars>>

\* KnowledgeBaseManager.handleAddNewGroup and App.handleAddGroup
AddGroup(input) ==
  /\ ChatView
  /\ Len(suggReqs) < MaxFetches
  /\ Len(urlGroups) < MaxGroups
  /\ IF isBlank(input)
     THEN UNCHANGED <<urlGroups, activeUrlGroupId, dirty>>
     ELSE /\ urlGroups' = Append(urlGroups, newGroup(now, trim(input)))
          /\ activeUrlGroupId' = now
          /\ dirty' = Deps({"urlGroups"}
                           \cup (IF now # activeUrlGroupId
                                 THEN {"activeUrlGroupId", "currentUrlsForChat"} ELSE {}),
                           urlGroups', now)
  /\ UNCHANGED <<fileContext, chatMessages, isLoading,
                 isFetchingSuggestions, initialQuerySuggestions, suggFrom, mode, isLoggedIn,
                 isAppLoading, error, storage, now, chatReqs, suggReqs>>
  /\ boot' = NoBoot
  /\ UNCHANGED <<sessionVars, gwVars>>

\* handleRemoveGroup with its early return taken only for an empty collection
handleRemoveGroup_NoEarlyReturn(groups, active, groupId, confirmed) ==
  IF Len(groups) < 1 \/ ~confirmed
  THEN [urlGroups |-> groups, activeUrlGroupId |-> active, set |-> FALSE]
  ELSE LET remaining == SelectSeq(groups, LAMBDA g : g.id # groupId)
       IN [urlGroups |-> remaining,
           activeUrlGroupId |-> IF active = groupId
                                THEN (IF Len(remaining) > 0 THEN remaining[1].id ELSE NoId)
                                ELSE active,
           set |-> TRUE]

\* App.handleRemoveGroup(groupId), with the answer given to window.confirm:
\* the collection and the active id it sets (the current ones when it returns
\* early or the user cancels)
handleRemoveGroup(groups, active, groupId, confirmed) ==
  IF Len(groups) <= 1 \/ ~confirmed
  THEN [urlGroups |-> groups, activeUrlGroupId |-> active, set |-> FALSE]
  ELSE LET remaining == SelectSeq(groups, LAMBDA g : g.id # groupId)
       IN [urlGroups |-> remaining,
           activeUrlGroupId |-> IF active = groupId
                                THEN (IF Len(remaining) > 0 THEN remaining[1].id ELSE NoId)
                                ELSE active,
           set |-> TRUE]

\* onRemoveGroup; KnowledgeBaseManager passes the active id and disables the
\* button while there is one group, the handler takes any id
RemoveGroup(groupId, confirmed) ==
  /\ ChatView
  /\ Len(suggReqs) < MaxFetches
  /\ some(urlGroups, groupId)
  /\ LET r == handleRemoveGroup(urlGroups, activeUrlGroupId, groupId, confirmed)
     IN /\ urlGroups' = r.urlGroups
        /\ activeUrlGroupId' = r.activeUrlGroupId
        /\ dirty' = Deps((IF r.set THEN {"urlGroups"} ELSE {})
                         \cup (IF r.activeUrlGroupId # activeUrlGroupId
                               THEN {"activeUrlGroupId", "currentUrlsForChat"} ELSE {}),
                         r.urlGroups, r.activeUrlGroupId)
  /\ UNCHANGED <<fileContext, chatMessages, isLoading,
                 isFetchingSuggestions, initialQuerySuggestions, suggFrom, mode, isLoggedIn,
                 isAppLoading, error, storage, now, chatReqs, suggReqs>>
  /\ boot' = NoBoot
  /\ UNCHANGED <<sessionVars, gwVars>>

\* App.handleRenameGroup
handleRenameGroup(groups, groupId, newName) ==
  [i \in DOMAIN groups |->
     IF groups[i].id = groupId THEN [groups[i] EXCEPT !.name = trim(newName)]
     ELSE groups[i]]

\* KnowledgeBaseManager.handleConfirmRename on the active group
RenameGroup(input) ==
  /\ ChatView
  /\ IF isBlank(input) \/ findIdx(urlGroups, activeUrlGroupId) = 0
     THEN UNCHANGED <<urlGroups, dirty>>
     ELSE /\ urlGroups' = handleRenameGroup(urlGroups, activeUrlGroupId, trim(input))
          /\ dirty' = Deps({"urlGroups"}, urlGroups', activeUrlGroupId)
  /\ UNCHANGED <<activeUrlGroupId, fileContext, chatMessages, isLoading,
                 isFetchingSuggestions, initialQuerySuggestions, suggFrom, mode, isLoggedIn,
                 isAppLoading, error, storage, now, chatReqs, suggReqs>>
  /\ boot' = NoBoot
  /\ UNCHANGED <<sessionVars, gwVars>>

\* the group <select>: onSetGroupId = setActiveUrlGroupId
SetGroupId(id) ==
  /\ ChatView
  /\ Len(suggReqs) < MaxFetches
  /\ some(urlGroups, id)
  /\ activeUrlGroupId' = id
  /\ dirty' = Deps(IF id # activeUrlGroupId
                   THEN {"activeUrlGroupId", "currentUrlsForChat"} ELSE {},
                   urlGroups, id)
  /\ UNCHANGED <<urlGroups, fileContext, chatMessages, isLoading,
                 isFetchingSuggestions, initialQuerySuggestions, suggFrom, mode, isLoggedIn,
                 isAppLoading, error, storage, now, chatReqs, suggReqs>>
  /\ boot' = NoBoot
  /\ UNCHANGED <<sessionVars, gwVars>>

\* App.handleSetTextContext (pasted text) and App.handleRemoveFile
SetTextContext(content) ==
  /\ ChatView
  /\ Len(suggReqs) < MaxFetches
  /\ fileContext' = IF trim(content) # "" THEN [name |-> "Pasted Content", content |-> trim(content)]
                    ELSE NoFile
  /\ dirty' = Deps(IF fileContext' # NoFile \/ fileContext # NoFile THEN {"fileContext"} ELSE {},
                   urlGroups, activeUrlGroupId)
  /\ UNCHANGED <<urlGroups, activeUrlGroupId, chatMessages, isLoading,
                 isFetchingSuggestions, initialQuerySuggestions, suggFrom, mode, isLoggedIn,
                 isAppLoading, error, storage, now, chatReqs, suggReqs>>
  /\ boot' = NoBoot
  /\ UNCHANGED <<sessionVars, gwVars>>

\* Header.onModeChange = setMode; leaving the chat view unmounts
\* KnowledgeBaseManager and drops its error line
SetMode(m) ==
  /\ Settled /\ ~isAppLoading /\ isLoggedIn
  /\ Len(suggReqs) < MaxFetches
  /\ mode' = m
  /\ error' = IF m = "chat" /\ mode = "chat" THEN error ELSE NoError
  /\ dirty' = Deps(IF m # mode THEN {"mode"} ELSE {}, urlGroups, activeUrlGroupId)
  /\ UNCHANGED <<urlGroups, activeUrlGroupId, fileContext, chatMessages, isLoading,
                 isFetchingSuggestions, initialQuerySuggestions, suggFrom, isLoggedIn,
                 isAppLoading, storage, now, chatReqs, suggReqs>>
  /\ boot' = NoBoot
  /\ UNCHANGED <<sessionVars, serviceVars>>
  /\ imageEditor' = IF m = "image" /\ mode = "image" THEN imageEditor ELSE NewImageEditor
  /\ bookGenerator' = IF m = "book" /\ mode = "book" THEN bookGenerator ELSE NewBookGenerator

\* ---------------------------------------------------------------- session
\* String.prototype.includes('@') on the email inputs
hasAt(s) == s = "u@x"

\* Login.handleSubmit up to its await: the form is validated and the probe
\* request is sent
LoginSubmit(apiKey, email) ==
  /\ Settled /\ ~isAppLoading /\ ~isLoggedIn
  /\ ~loginForm.isLoading
  /\ loginForm' = IF isBlank(apiKey) \/ isBlank(email)
                  THEN [loginForm EXCEPT !.error = "Please enter both API key and email"]
                  ELSE IF ~hasAt(email)
                  THEN [loginForm EXCEPT !.error = "Please enter a valid email address"]
                  ELSE [isLoading |-> TRUE, error |-> NoError, apiKey |-> apiKey, email |-> email]
  /\ UNCHANGED <<urlGroups, activeUrlGroupId, fileContext, chatMessages, isLoading,
                 isFetchingSuggestions, initialQuerySuggestions, suggFrom, mode,
                 isLoggedIn, isAppLoading, error, storage, now, chatReqs, suggReqs, dirty,
                 userEmail, apiKeyMirror>>
  /\ UNCHANGED gwVars
  /\ boot' = NoBoot

\* LoginProbe with the credential stored and the session opened whatever the
\* probe answered
LoginProbe_NoOkTest(ok) ==
  /\ Settled
  /\ loginForm.isLoading
  /\ storage' = [storage EXCEPT !.gemini_api_key = loginForm.apiKey,
                                !.user_email = loginForm.email,
                                !.has_logged_in = "true"]
  /\ isLoggedIn' = TRUE
  /\ userEmail' = loginForm.email
  /\ apiKeyMirror' = loginForm.apiKey
  /\ loginForm' = NewLoginForm
  /\ UNCHANGED <<urlGroups, activeUrlGroupId, fileContext, chatMessages, isLoading,
                 isFetchingSuggestions, initialQuerySuggestions, suggFrom, mode,
                 isAppLoading, error, now, chatReqs, suggReqs, dirty, boot>>
  /\ UNCHANGED gwVars

\* Login.handleSubmit after its await: the probe answered (ok is response.ok,
\* FALSE also when fetch rejects); on success the credential is stored and
\* App.handleLogin runs, which unmounts the form
LoginProbe(ok) ==
  /\ Settled
  /\ loginForm.isLoading
  /\ IF ok
     THEN /\ storage' = [storage EXCEPT !.gemini_api_key = loginForm.apiKey,
                                        !.user_email = loginForm.email,
                                        !.has_logged_in = "true"]
          /\ isLoggedIn' = TRUE
          /\ userEmail' = loginForm.email
          /\ apiKeyMirror' = loginForm.apiKey
          /\ loginForm' = NewLoginForm
     ELSE /\ loginForm' = [loginForm EXCEPT
                             !.error = "Invalid API key. Please check your key and try again.",
                             !.isLoading = FALSE]
          /\ UNCHANGED <<storage, isLoggedIn, userEmail, apiKeyMirror>>
  /\ UNCHANGED <<urlGroups, activeUrlGroupId, fileContext, chatMessages, isLoading,
                 isFetchingSuggestions, initialQuerySuggestions, suggFrom, mode,
                 isAppLoading, error, now, chatReqs, suggReqs, dirty, boot>>
  /\ UNCHANGED gwVars

\* App.handleLogout (the Logout button of the header); the views are replaced
\* by a fresh Login form
Logout ==
  /\ Settled /\ ~isAppLoading /\ isLoggedIn
  /\ storage' = [storage EXCEPT !.has_logged_in = NoItem, !.gemini_api_key = NoItem,
                                !.user_email = NoItem]
  /\ isLoggedIn' = FALSE
  /\ userEmail' = ""
  /\ apiKeyMirror' = NoItem
  /\ loginForm' = NewLoginForm
  /\ error' = NoError
  /\ UNCHANGED <<urlGroups, activeUrlGroupId, fileContext, chatMessages, isLoading,
                 isFetchingSuggestions, initialQuerySuggestions, suggFrom, mode,
                 isAppLoading, now, chatReqs, suggReqs, dirty>>
  /\ UNCHANGED serviceVars
  /\ imageEditor' = NewImageEditor
  /\ bookGenerator' = NewBookGenerator
  /\ boot' = NoBoot

\* the page is loaded again: the state is constructed anew, window.VITE_API_KEY
\* is gone, local storage and the clock stay, and nothing is left in flight
Reload ==
  /\ urlGroups' = <<>>
  /\ activeUrlGroupId' = NoId
  /\ fileContext' = NoFile
  /\ chatMessages' = <<>>
  /\ isLoading' = FALSE
  /\ isFetchingSuggestions' = FALSE
  /\ initialQuerySuggestions' = <<>>
  /\ mode' = "chat"
  /\ isLoggedIn' = FALSE
  /\ isAppLoading' = TRUE
  /\ error' = NoError
  /\ chatReqs' = {}
  /\ suggReqs' = <<>>
  /\ dirty' = {"mount"}
  /\ suggFrom' = "none"
  /\ boot' = [urlGroups |-> storage.urlGroups, activeUrlGroupId |-> storage.activeUrlGroupId,
              has_logged_in |-> storage.has_logged_in,
              gemini_api_key |-> storage.gemini_api_key, user_email |-> storage.user_email,
              kept |-> TRUE]
  /\ userEmail' = ""
  /\ apiKeyMirror' = NoItem
  /\ loginForm' = NewLoginForm
  /\ gwCall' = NoCall
  /\ gwRequests' = <<>>
  /\ gwOutcome' = NoOutcome
  /\ imageEditor' = NewImageEditor
  /\ bookGenerator' = NewBookGenerator
  /\ UNCHANGED <<storage, now>>

\* a visitor who logs in with a key the probe accepts
Login ==
  \/ LoginSubmit("key", "u@x")
  \/ LoginProbe(TRUE)

\* ---------------------------------------------------------------- chat
userMessage(query, t) ==
  [id |-> [k |-> "user", g |-> NoId, t |-> t], text |-> <<query>>,
   sender |-> "user", isLoading |-> FALSE, urlContext |-> "none"]

modelPlaceholder(t) ==
  [id |-> [k |-> "model", g |-> NoId, t |-> t], text |-> <<"Thinking...">>,
   sender |-> "model", isLoading |-> TRUE, urlContext |-> "none"]

\* the guard without its test of the loading flag
sendAccepted_NoLoadingTest(query) == ~isBlank(query) /\ ~isFetchingSuggestions
\* the guard of App.handleSendMessage
sendAccepted(query) == ~isBlank(query) /\ ~isLoading /\ ~isFetchingSuggestions

\* App.handleSendMessage up to its await
handleSendMessage(query) ==
  /\ IF sendAccepted(query)
     THEN /\ isLoading' = TRUE
          /\ initialQuerySuggestions' = <<>>
          /\ suggFrom' = "none"
          /\ chatMessages' = chatMessages \o <<userMessage(query, now), modelPlaceholder(now)>>
          /\ chatReqs' = chatReqs \cup {modelPlaceholder(now)}
     ELSE UNCHANGED <<isLoading, initialQuerySuggestions, suggFrom, chatMessages, chatReqs>>
  /\ UNCHANGED <<urlGroups, activeUrlGroupId, fileContext, isFetchingSuggestions,
                 mode, isLoggedIn, isAppLoading, error, storage, now, suggReqs, dirty>>
  /\ boot' = NoBoot
  /\ UNCHANGED <<sessionVars, gwVars>>

\* ChatInterface.handleSend: the typed query, trimmed
Send(input) ==
  /\ ChatView
  /\ Len(chatMessages) + 2 <= MaxMsgs
  /\ handleSendMessage(trim(input))

\* a click on a suggestion chip (shown while at most one message is not from system)
ClickSuggestion(i) ==
  /\ ChatView
  /\ Len(chatMessages) + 2 <= MaxMsgs
  /\ i \in DOMAIN initialQuerySuggestions
  /\ Cardinality({j \in DOMAIN chatMessages : chatMessages[j].sender # "system"}) <= 1
  /\ handleSendMessage(initialQuerySuggestions[i])

\* the replacement that appends when no message carries the id
replaceById_AppendIfAbsent(msgs, id, repl) ==
  IF \E j \in DOMAIN msgs : msgs[j].id = id
  THEN [j \in DOMAIN msgs |-> IF msgs[j].id = id THEN repl ELSE msgs[j]]
  ELSE Append(msgs, repl)
\* the replacement with the placeholder taken out and its replacement put at
\* the end of the transcript
replaceById_MoveToEnd(msgs, id, repl) ==
  SelectSeq(msgs, LAMBDA msg : msg.id # id)
  \o (IF \E j \in DOMAIN msgs : msgs[j].id = id THEN <<repl>> ELSE <<>>)
\* setChatMessages(prev => prev.map(msg => msg.id === placeholder.id ? repl : msg))
replaceById(msgs, id, repl) ==
  [j \in DOMAIN msgs |-> IF msgs[j].id = id THEN repl ELSE msgs[j]]

\* the request of `placeholder` resolves with response {text, urlContextMetadata}
ChatResolve(placeholder, response) ==
  /\ Settled
  /\ placeholder \in chatReqs
  /\ chatMessages' = replaceById(chatMessages, placeholder.id,
        [placeholder EXCEPT !.text = <<IF response.text # "" THEN response.text
                                             ELSE "I received an empty response.">>,
                            !.isLoading = FALSE,
                            !.urlContext = response.urlContextMetadata])
  /\ isLoading' = FALSE
  /\ chatReqs' = chatReqs \ {placeholder}
  /\ UNCHANGED <<urlGroups, activeUrlGroupId, fileContext, isFetchingSuggestions,
                 initialQuerySuggestions, suggFrom, mode, isLoggedIn, isAppLoading, error,
                 storage, now, suggReqs, dirty, boot>>
  /\ UNCHANGED <<sessionVars, gwVars>>

\* the rejection handled without the finally block: the loading flag stays
ChatReject_NoFinally(placeholder, msg) ==
  /\ Settled
  /\ placeholder \in chatReqs
  /\ chatMessages' = replaceById(chatMessages, placeholder.id,
        [placeholder EXCEPT !.text = <<"Error: ", msg>>, !.sender = "system",
                            !.isLoading = FALSE])
  /\ chatReqs' = chatReqs \ {placeholder}
  /\ UNCHANGED <<urlGroups, activeUrlGroupId, fileContext, isFetchingSuggestions,
                 initialQuerySuggestions, suggFrom, mode, isLoggedIn, isAppLoading, error,
                 storage, now, suggReqs, dirty, boot, isLoading>>
  /\ UNCHANGED <<sessionVars, gwVars>>
\* the request of `placeholder` rejects with e.message = msg
ChatReject(placeholder, msg) ==
  /\ Settled
  /\ placeholder \in chatReqs
  /\ chatMessages' = replaceById(chatMessages, placeholder.id,
        [placeholder EXCEPT !.text = <<"Error: ", msg>>, !.sender = "system",
                            !.isLoading = FALSE])
  /\ isLoading' = FALSE
  /\ chatReqs' = chatReqs \ {placeholder}
  /\ UNCHANGED <<urlGroups, activeUrlGroupId, fileContext, isFetchingSuggestions,
                 initialQuerySuggestions, suggFrom, mode, isLoggedIn, isAppLoading, error,
                 storage, now, suggReqs, dirty, boot>>
  /\ UNCHANGED <<sessionVars, gwVars>>

\* ---------------------------------------------------------------- suggestions
SuggestionPayloads ==
  {[kind |-> "garbage", items |-> <<>>],
   [kind |-> "object", items |-> <<>>],
   [kind |-> "json", items |-> <<"s", "s", "s", "s", "s">>]}

\* JSON.parse of response.text and the Array.isArray(parsed.suggestions) test
parseSuggestions(payload) == IF payload.kind = "json" THEN payload.items ELSE <<>>

removeAt(s, i) == SubSeq(s, 1, i - 1) \o SubSeq(s, i + 1, Len(s))

\* fetchAndSetInitialSuggestions after its await: the i-th fetch resolves
SuggestResolve(i, payload) ==
  /\ Settled
  /\ i \in DOMAIN suggReqs
  /\ initialQuerySuggestions' = slice0(parseSuggestions(payload), 4)
  /\ suggFrom' = suggReqs[i]
  /\ isFetchingSuggestions' = FALSE
  /\ suggReqs' = removeAt(suggReqs, i)
  /\ UNCHANGED <<urlGroups, activeUrlGroupId, fileContext, chatMessages, isLoading,
                 mode, isLoggedIn, isAppLoading, error, storage, now, chatReqs, dirty, boot>>
  /\ UNCHANGED <<sessionVars, gwVars>>

\* the i-th fetch rejects with e.message = msg
SuggestReject(i, msg) ==
  /\ Settled
  /\ i \in DOMAIN suggReqs
  /\ chatMessages' = Append(chatMessages,
        [id |-> [k |-> "sys-err-suggestion-fetch", g |-> NoId, t |-> now],
         text |-> <<"Error: ", msg>>, sender |-> "system", isLoading |-> FALSE,
         urlContext |-> "none"])
  /\ isFetchingSuggestions' = FALSE
  /\ suggReqs' = removeAt(suggReqs, i)
  /\ UNCHANGED <<urlGroups, activeUrlGroupId, fileContext, initialQuerySuggestions, suggFrom,
                 isLoading, mode, isLoggedIn, isAppLoading, error, storage, now,
                 chatReqs, dirty, boot>>
  /\ UNCHANGED <<sessionVars, gwVars>>

\* ---------------------------------------------------------------- geminiService
\* Strings the service builds are sequences of pieces: literals of the source
\* and the inserted values.
MODEL_NAME == "gemini-2.5-flash"
IMAGE_MODEL_NAME == "gemini-2.5-flash-image"

\* String.prototype.includes on a message made of pieces
includes(message, piece) == \E i \in DOMAIN message : message[i] = piece

\* what ai.models.generateContent can reject with: an Error (with or without
\* the type of the SDK's errors, with one of a few messages) or another value
UpstreamMessages ==
  {<<>>, <<"boom">>, <<"quota">>, <<"API key not valid">>, <<"quota", "API key not valid">>}
UpstreamErrors ==
  {[isError |-> TRUE, type |-> t, message |-> m] :
      t \in {"GoogleGenAIError", "none"}, m \in UpstreamMessages}
  \cup {[isError |-> FALSE, type |-> "none", message |-> <<>>]}

\* a request as handed to ai.models.generateContent or generateImages; once
\* it is answered, text is the chapter content made of response.text and
\* parts the parts of candidates[0].content of an image response
Request(purpose, model, tools, thinkingBudget, contents) ==
  [purpose |-> purpose, model |-> model, tools |-> tools,
   thinkingBudget |-> thinkingBudget, contents |-> contents,
   state |-> "pending", text |-> <<>>, parts |-> <<>>]

Returned(outcome) == [outcome EXCEPT !.status = "returned"]
Thrown(message) == [NoOutcome EXCEPT !.status = "thrown", !.message = message]
Pending == [NoOutcome EXCEPT !.status = "pending"]

\* the request of the running invocation that is awaited
awaited(purpose) ==
  {i \in DOMAIN gwRequests : gwRequests[i].purpose = purpose /\ gwRequests[i].state = "pending"}

\* ---- getInitialSuggestions
NullContent == "<null>"
FileContents == {NullContent, "", "text"}
UrlLists == {<<>>, <<"https://a">>, <<"https://a", "https://b">>}
\* truthiness of fileContent: null and '' are falsy
truthy(fileContent) == fileContent \notin {NullContent, ""}

CannedSuggestions ==
  [kind |-> "json", items |-> <<"Add some URLs or a file to get topic suggestions.">>]

suggestionsPrompt(urls, fileContent) ==
  (IF truthy(fileContent)
   THEN <<"Based on the content of the following text file:", fileContent>> ELSE <<>>)
  \o (IF Len(urls) > 0
      THEN <<"And based on the content of the following documentation URLs:">> \o urls
      ELSE <<>>)
  \o <<"Provide 3-4 concise and actionable questions">>

\* the short circuit of getInitialSuggestions with the file content left out
\* of its test
noContext_NoFileTest(urls, fileContent) == Len(urls) = 0
noContext(urls, fileContent) == Len(urls) = 0 /\ ~truthy(fileContent)

\* getInitialSuggestions up to its return or its await, called from the chat
\* view
getInitialSuggestions(urls, fileContent) ==
  /\ ChatView
  /\ gwCall.op = "idle"
  /\ IF noContext(urls, fileContent)
     THEN /\ gwRequests' = <<>>
          /\ gwOutcome' = Returned([NoOutcome EXCEPT !.payload = CannedSuggestions])
          /\ gwCall' = NoCall
     ELSE /\ gwRequests' = <<Request("suggest", MODEL_NAME, {}, "unset",
                                      suggestionsPrompt(urls, fileContent))>>
          /\ gwOutcome' = Pending
          /\ gwCall' = [NoCall EXCEPT !.op = "suggest"]
  /\ UNCHANGED <<appVars, imageEditor, bookGenerator>>

\* response.text || "" of a suggestions response
SuggestionTexts == SuggestionPayloads \cup {NoPayload}

\* getInitialSuggestions after its await: the request is fulfilled
getInitialSuggestionsFulfilled(text) ==
  /\ gwCall.op = "suggest"
  /\ \E i \in awaited("suggest") :
       gwRequests' = [gwRequests EXCEPT ![i].state = "fulfilled"]
  /\ gwOutcome' = Returned([NoOutcome EXCEPT !.payload = text])
  /\ gwCall' = NoCall
  /\ UNCHANGED <<appVars, imageEditor, bookGenerator>>

suggestionsError(e) ==
  IF e.isError
  THEN IF e.message # <<>> /\ includes(e.message, "API key not valid")
       THEN <<"Invalid API Key. Please check the key you provided.">>
       ELSE <<"Failed to get initial suggestions from AI: ">> \o e.message
  ELSE <<"Failed to get initial suggestions from AI due to an unknown error.">>

\* getInitialSuggestions after its await: the request is rejected
getInitialSuggestionsRejected(e) ==
  /\ gwCall.op = "suggest"
  /\ \E i \in awaited("suggest") :
       gwRequests' = [gwRequests EXCEPT ![i].state = "rejected"]
  /\ gwOutcome' = Thrown(suggestionsError(e))
  /\ gwCall' = NoCall
  /\ UNCHANGED <<appVars, imageEditor, bookGenerator>>


\* ---- generateContentWithUrlContext
Prompts == {"q"}
FileContexts == {NoFile, [name |-> "notes.txt", content |-> "text"]}
CustomPrompts == {"", " ", "be brief"}

fullPrompt(prompt, urls, file, customPrompt) ==
  (IF ~isBlank(customPrompt) THEN <<customPrompt, "User Question: ", prompt>> ELSE <<prompt>>)
  \o (IF file # NoFile
      THEN <<"Use the following file context from ", file.name, file.content>> ELSE <<>>)
  \o (IF Len(urls) > 0 THEN <<"Relevant URLs for context:">> \o urls ELSE <<>>)

\* the tools of the request with the URL-context tool added whatever the toggle
toolsFor_AlwaysUrlContext(useWebSearch) ==
  (IF useWebSearch THEN {"googleSearch"} ELSE {}) \cup {"urlContext"}
toolsFor(useWebSearch) == IF useWebSearch THEN {"googleSearch"} ELSE {"urlContext"}

\* config.thinkingConfig.thinkingBudget, set only when thinking is off
thinkingBudgetFor(useThinking) == IF useThinking THEN "unset" ELSE "0"

\* generateContentWithUrlContext up to its await, called from the chat view
generateContentWithUrlContext(prompt, urls, file, useWebSearch, useThinking, customPrompt) ==
  /\ ChatView
  /\ gwCall.op = "idle"
  /\ gwRequests' = <<Request("chat", MODEL_NAME, toolsFor(useWebSearch),
                             thinkingBudgetFor(useThinking),
                             fullPrompt(prompt, urls, file, customPrompt))>>
  /\ gwOutcome' = Pending
  /\ gwCall' = [NoCall EXCEPT !.op = "chat"]
  /\ UNCHANGED <<appVars, imageEditor, bookGenerator>>

\* generateContentWithUrlContext after its await: the request is fulfilled;
\* response.text is undefined ("") or a text
ChatTexts == {<<>>, <<"answer">>}
generateContentFulfilled(text, metadata) ==
  /\ gwCall.op = "chat"
  /\ \E i \in awaited("chat") :
       gwRequests' = [gwRequests EXCEPT ![i].state = "fulfilled"]
  /\ gwOutcome' = Returned([NoOutcome EXCEPT !.text = text, !.urlContextMetadata = metadata])
  /\ gwCall' = NoCall
  /\ UNCHANGED <<appVars, imageEditor, bookGenerator>>

MsgInvalidKey == <<"Invalid API Key. Please check the key you provided.">>
MsgQuota == <<"API quota exceeded. Please check your Gemini API quota.">>
MsgPassthrough(message) == <<"Gemini API Error: ">> \o message
MsgCatchAll(message) == <<"Failed to get response from AI: ">> \o message
MsgUnknown == <<"Failed to get response from AI due to an unknown error.">>

\* the catch block with the quota test ahead of the credential test
chatError_QuotaFirst(e) ==
  IF e.isError
  THEN IF e.message # <<>> /\ includes(e.message, "quota")
       THEN MsgQuota
       ELSE IF e.message # <<>> /\ includes(e.message, "API key not valid")
       THEN MsgInvalidKey
       ELSE IF e.type = "GoogleGenAIError" /\ e.message # <<>>
       THEN MsgPassthrough(e.message)
       ELSE MsgCatchAll(e.message)
  ELSE MsgUnknown
\* the catch block of generateContentWithUrlContext
chatError(e) ==
  IF e.isError
  THEN IF e.message # <<>> /\ includes(e.message, "API key not valid")
       THEN MsgInvalidKey
       ELSE IF e.message # <<>> /\ includes(e.message, "quota")
       THEN MsgQuota
       ELSE IF e.type = "GoogleGenAIError" /\ e.message # <<>>
       THEN MsgPassthrough(e.message)
       ELSE MsgCatchAll(e.message)
  ELSE MsgUnknown

\* generateContentWithUrlContext after its await: the request is rejected
generateContentRejected(e) ==
  /\ gwCall.op = "chat"
  /\ \E i \in awaited("chat") :
       gwRequests' = [gwRequests EXCEPT ![i].state = "rejected"]
  /\ gwOutcome' = Thrown(chatError(e))
  /\ gwCall' = NoCall
  /\ UNCHANGED <<appVars, imageEditor, bookGenerator>>

\* ---- editImage, generateImage and the ImageEditor component
MaxParts == 2

\* the parts of candidates[0].content: an image part with data and a declared
\* mime type, one that declares no mime type, one without data, text parts
\* and an empty text part
Parts ==
  {[kind |-> "image", data |-> "d1", mimeType |-> "image/jpeg", text |-> ""],
   [kind |-> "image", data |-> "d2", mimeType |-> "", text |-> ""],
   [kind |-> "image", data |-> "", mimeType |-> "image/webp", text |-> ""],
   [kind |-> "text", data |-> "", mimeType |-> "", text |-> "t1"],
   [kind |-> "text", data |-> "", mimeType |-> "", text |-> "t2"],
   [kind |-> "text", data |-> "", mimeType |-> "", text |-> ""]}
PartSeqs == UNION {[1..n -> Parts] : n \in 0..MaxParts}

\* the loop over the parts, from the accumulator acc on
RECURSIVE editParts(_, _)
editParts(parts, acc) ==
  IF parts = <<>> THEN acc
  ELSE LET part == Head(parts)
           next == IF part.kind = "image"
                   THEN [acc EXCEPT !.image = part.data,
                                    !.mimeType = IF part.mimeType # "" THEN part.mimeType ELSE @]
                   ELSE IF part.text # ""
                   THEN [acc EXCEPT !.text = @ \o <<part.text>>]
                   ELSE acc
       IN editParts(Tail(parts), next)

MsgNoImage == "The model did not return an image. It might have refused the request."

\* the body of editImage's try block after the await, with the test for a
\* missing image left out
editImageResult_NoImageTest(parts) ==
  LET acc == editParts(parts, [image |-> "", text |-> <<>>, mimeType |-> "image/png"])
  IN Returned([NoOutcome EXCEPT
                 !.image = acc.image,
                 !.text = IF acc.text = <<>> THEN <<"Image edited successfully.">> ELSE acc.text,
                 !.mimeType = acc.mimeType])
\* the body of editImage's try block after the await, and its catch block for
\* the error thrown there
editImageResult(parts) ==
  LET acc == editParts(parts, [image |-> "", text |-> <<>>, mimeType |-> "image/png"])
  IN IF acc.image = ""
     THEN Thrown(<<"Image editing failed: ", MsgNoImage>>)
     ELSE Returned([NoOutcome EXCEPT
                      !.image = acc.image,
                      !.text = IF acc.text = <<>> THEN <<"Image edited successfully.">> ELSE acc.text,
                      !.mimeType = acc.mimeType])

\* editImage's catch block for a rejected request
editImageError(e) ==
  IF e.isError THEN <<"Image editing failed: ">> \o e.message
  ELSE <<"An unknown error occurred during image editing.">>

\* response.generatedImages: undefined or empty, one image without bytes, one image
GeneratedImages == {<<>>, <<"">>, <<"g1">>}

generateImageResult(images) ==
  IF Len(images) = 0
  THEN Thrown(<<"Image generation failed: ", "The model did not return an image.">>)
  ELSE Returned([NoOutcome EXCEPT !.image = images[1]])

generateImageError(e) ==
  IF e.isError THEN <<"Image generation failed: ">> \o e.message
  ELSE <<"An unknown error occurred during image generation.">>

ImagePrompts == {"draw"}
SourceImages == {"none", "src"}

\* ImageEditor.handleGenerate up to its await, with the call of editImage or
\* generateImage up to theirs; the Generate button is disabled while
\* isLoading and for a blank prompt
ImageEditorGenerate(prompt, sourceImage) ==
  /\ ImageView
  /\ ~imageEditor.isLoading /\ ~isBlank(prompt)
  /\ gwCall.op = "idle"
  /\ imageEditor' = [result |-> NoResult, isLoading |-> TRUE, error |-> <<>>, awaiting |-> TRUE]
  /\ IF sourceImage # "none"
     THEN /\ gwRequests' = <<Request("edit", IMAGE_MODEL_NAME, {}, "unset",
                                      <<sourceImage, prompt>>)>>
          /\ gwCall' = [NoCall EXCEPT !.op = "editImage", !.topic = prompt]
     ELSE /\ gwRequests' = <<Request("imagen", "imagen-4.0-generate-001", {}, "unset",
                                      <<prompt>>)>>
          /\ gwCall' = [NoCall EXCEPT !.op = "generateImage", !.topic = prompt]
  /\ gwOutcome' = Pending
  /\ UNCHANGED <<appVars, bookGenerator>>

\* ImageEditor.handleGenerate after its await of editImage or generateImage
\* (op), for the outcome of the call; a component unmounted in the meantime
\* is not updated
afterGenerate(editor, op, outcome, prompt) ==
  IF ~editor.awaiting THEN editor
  ELSE IF outcome.status = "returned"
  THEN [result |-> IF op = "editImage"
                   THEN [isNull |-> FALSE, image |-> outcome.image, text |-> outcome.text,
                         mimeType |-> outcome.mimeType]
                   ELSE [isNull |-> FALSE, image |-> outcome.image,
                         text |-> <<"Generated image for: ", prompt>>,
                         mimeType |-> "image/jpeg"],
        isLoading |-> FALSE, error |-> editor.error, awaiting |-> FALSE]
  ELSE [result |-> editor.result, isLoading |-> FALSE,
        error |-> IF outcome.message = <<>> THEN <<"An unexpected error occurred.">>
                  ELSE outcome.message,
        awaiting |-> FALSE]

\* the image request settles (state, parts of the response): editImage or
\* generateImage ends with outcome and handleGenerate resumes
ImageSettled(op, state, parts, outcome) ==
  /\ gwCall.op = op
  /\ \E i \in awaited("edit") \cup awaited("imagen") :
       gwRequests' = [gwRequests EXCEPT ![i].state = state, ![i].parts = parts]
  /\ gwOutcome' = outcome
  /\ imageEditor' = afterGenerate(imageEditor, op, outcome, gwCall.topic)
  /\ gwCall' = NoCall
  /\ UNCHANGED <<appVars, bookGenerator>>

\* editImage after its await
EditImageFulfilled(parts) == ImageSettled("editImage", "fulfilled", parts, editImageResult(parts))
EditImageRejected(e) == ImageSettled("editImage", "rejected", <<>>, Thrown(editImageError(e)))

\* generateImage after its await
GenerateImageFulfilled(images) ==
  ImageSettled("generateImage", "fulfilled", <<>>, generateImageResult(images))
GenerateImageRejected(e) ==
  ImageSettled("generateImage", "rejected", <<>>, Thrown(generateImageError(e)))

\* ---- generateBook
MaxChapters == 2

Topics == {"topic"}
ChapterTitles == {"c1", "c2"}
TitleSeqs == UNION {[1..n -> ChapterTitles] : n \in 0..MaxChapters}

\* outlineResponse.text: bare ("none"), inside a code fence ("fence") or
\* inside a code fence with prose around it ("prose"); its body is empty,
\* not JSON, the JSON null, or a JSON object with a title and, unless the
\* model left it out, a chapters array
Fences == {"none", "fence", "prose"}
OutlineTexts ==
  {[fence |-> f, body |-> b, title |-> "", chapters |-> <<>>, hasChapters |-> FALSE] :
      f \in Fences, b \in {"", "garbage", "null"}}
  \cup {[fence |-> f, body |-> "object", title |-> "T", chapters |-> <<>>,
         hasChapters |-> FALSE] : f \in Fences}
  \cup {[fence |-> f, body |-> "object", title |-> "T", chapters |-> c,
         hasChapters |-> TRUE] : f \in Fences, c \in TitleSeqs}

\* the trim and the fence regex, anchored at both ends: the body when the
\* whole text is one fence with a non-empty body, the text as it is
\* otherwise ("fenced": a text that still holds a fence)
stripFence(text) ==
  IF text.fence = "none" THEN text.body
  ELSE IF text.fence = "fence" /\ text.body # "" THEN text.body
  ELSE "fenced"

\* a lenient parser in the place of JSON.parse: a text that is not JSON
\* yields null instead of a SyntaxError
parseOutline_Lenient(text) ==
  IF stripFence(text) \in {"", "garbage", "fenced"} THEN "null" ELSE stripFence(text)
\* the trim, the fence regex and JSON.parse: the outline, or "SyntaxError"
parseOutline(text) ==
  IF stripFence(text) \in {"", "garbage", "fenced"} THEN "SyntaxError" ELSE stripFence(text)

MsgOutline == <<"Could not generate a valid book outline.">>
MsgChapterFailed == <<"Content generation for this chapter failed.">>
MsgTypeError == <<"TypeError">>

\* response.text of a chapter response: undefined or '', or a text
ChapterTexts == {<<>>, <<"x">>, <<"y">>}

\* the requests of the chapters, the k-th chapter's being request k + 1
chapterRequest(k) == k + 1

\* Promise.all resolving to the values in the order the promises settled
promiseAll_SettleOrder(requests, titles, settled) ==
  [k \in 1..Len(titles) |->
     [title |-> titles[settled[k] - 1], content |-> requests[settled[k]].text]]
\* Promise.all over chapterPromises: the values in the order of the promises
promiseAll(requests, titles, settled) ==
  [k \in 1..Len(titles) |->
     [title |-> titles[k], content |-> requests[chapterRequest(k)].text]]

\* BookGenerator.handleGenerate after its await of generateBook, which was
\* running (op) and has ended (opAfter is idle) with outcome; a component
\* unmounted in the meantime is not updated
afterBook(generator, op, opAfter, outcome) ==
  IF op = "idle" \/ opAfter # "idle" \/ ~generator.awaiting THEN generator
  ELSE IF outcome.status = "returned"
  THEN [book |-> [isNull |-> FALSE, title |-> outcome.title, chapters |-> outcome.chapters],
        isGenerating |-> FALSE, error |-> generator.error, awaiting |-> FALSE]
  ELSE [book |-> generator.book, isGenerating |-> FALSE,
        error |-> IF outcome.message = <<>> THEN <<"Failed to generate the book.">>
                  ELSE outcome.message,
        awaiting |-> FALSE]

\* generateBook up to its first await, called from the book view: the
\* outline request
generateBook(topic) ==
  /\ BookView
  /\ gwCall.op = "idle"
  /\ gwRequests' = <<Request("outline", MODEL_NAME, {}, "unset", <<topic>>)>>
  /\ gwOutcome' = Pending
  /\ gwCall' = [NoCall EXCEPT !.op = "outline", !.topic = topic]
  /\ UNCHANGED <<appVars, imageEditor>>

TopicInputs == Topics \cup {" "}

\* BookGenerator.handleGenerate up to its await (the button, or Enter in the
\* topic field; both are disabled while generating), with the call of
\* generateBook up to its first await
BookGeneratorGenerate(topic) ==
  /\ BookView
  /\ ~bookGenerator.isGenerating
  /\ IF isBlank(topic)
     THEN /\ bookGenerator' = [bookGenerator EXCEPT
                                 !.error = <<"Please enter a topic for your book.">>]
          /\ UNCHANGED <<appVars, imageEditor, serviceVars>>
     ELSE /\ bookGenerator' = [book |-> NoBook, isGenerating |-> TRUE, error |-> <<>>,
                               awaiting |-> TRUE]
          /\ generateBook(topic)

\* generateBook after its first await: the outline is parsed and the chapter
\* requests are issued, up to the await of Promise.all
OutlineFulfilled(text) ==
  /\ gwCall.op = "outline"
  /\ LET outline == parseOutline(text)
         issued == [gwRequests EXCEPT ![1].state = "fulfilled"]
     IN IF outline = "SyntaxError"
        THEN /\ gwRequests' = issued
             /\ gwOutcome' = Thrown(MsgOutline)
             /\ gwCall' = NoCall
        ELSE IF outline = "null" \/ ~text.hasChapters
        THEN /\ gwRequests' = issued
             /\ gwOutcome' = Thrown(MsgTypeError)
             /\ gwCall' = NoCall
        ELSE IF text.chapters = <<>>
        THEN /\ gwRequests' = issued
             /\ gwOutcome' = Returned([NoOutcome EXCEPT !.title = text.title])
             /\ gwCall' = NoCall
        ELSE /\ gwRequests' = issued \o
                  [k \in 1..Len(text.chapters) |->
                     Request("chapter", MODEL_NAME, {}, "unset", <<gwCall.topic, text.chapters[k]>>)]
             /\ gwOutcome' = [Pending EXCEPT !.title = text.title]
             /\ gwCall' = [gwCall EXCEPT !.op = "chapters", !.titles = text.chapters]
  /\ bookGenerator' = afterBook(bookGenerator, gwCall.op, gwCall'.op, gwOutcome')
  /\ UNCHANGED <<appVars, imageEditor>>

\* the outline request is rejected: generateBook rejects with that error
OutlineRejected(e) ==
  /\ gwCall.op = "outline"
  /\ gwRequests' = [gwRequests EXCEPT ![1].state = "rejected"]
  /\ gwOutcome' = Thrown(e.message)
  /\ gwCall' = NoCall
  /\ bookGenerator' = afterBook(bookGenerator, gwCall.op, gwCall'.op, gwOutcome')
  /\ UNCHANGED <<appVars, imageEditor>>

\* a chapter request is fulfilled and its then-callback runs; when it was the
\* last one Promise.all resolves and generateBook returns
ChapterFulfilled(i, text) ==
  /\ i \in awaited("chapter")
  /\ LET requests == [gwRequests EXCEPT
                        ![i].state = "fulfilled",
                        ![i].text = IF text = <<>> THEN MsgChapterFailed ELSE text]
         settled == Append(gwCall.settled, i)
     IN /\ gwRequests' = requests
        /\ IF gwCall.op = "chapters"
           THEN IF \A k \in DOMAIN gwCall.titles : requests[chapterRequest(k)].state = "fulfilled"
                THEN /\ gwOutcome' = Returned([gwOutcome EXCEPT
                                         !.chapters = promiseAll(requests, gwCall.titles, settled)])
                     /\ gwCall' = [NoCall EXCEPT !.settled = settled]
                ELSE /\ gwCall' = [gwCall EXCEPT !.settled = settled]
                     /\ UNCHANGED gwOutcome
           ELSE UNCHANGED <<gwCall, gwOutcome>>
  /\ bookGenerator' = afterBook(bookGenerator, gwCall.op, gwCall'.op, gwOutcome')
  /\ UNCHANGED <<appVars, imageEditor>>

\* a chapter request is rejected: Promise.all rejects with the first
\* rejection and generateBook with it
ChapterRejected(i, e) ==
  /\ i \in awaited("chapter")
  /\ gwRequests' = [gwRequests EXCEPT ![i].state = "rejected"]
  /\ IF gwCall.op = "chapters"
     THEN /\ gwOutcome' = Thrown(e.message)
          /\ gwCall' = NoCall
     ELSE UNCHANGED <<gwCall, gwOutcome>>
  /\ bookGenerator' = afterBook(bookGenerator, gwCall.op, gwCall'.op, gwOutcome')
  /\ UNCHANGED <<appVars, imageEditor>>

\* ---------------------------------------------------------------- specifications
\* Background steps of every session: effect passes, the clock, the login
\* form, and the completion of suggestion fetches.
Background ==
  \/ RunEffects
  \/ Tick
  \/ Login
  \/ \E i \in 1..(MaxFetches + 1), payload \in SuggestionPayloads : SuggestResolve(i, payload)
  \/ \E i \in 1..(MaxFetches + 1), msg \in ErrMsgs : SuggestReject(i, msg)

\* A session in which the user manages the groups of the knowledge base, with
\* one URL to add and remove, pastes text and switches modes; suggestion
\* fetches are answered oldest first.
Next ==
  \/ RunEffects
  \/ Tick
  \/ Login
  \/ \E payload \in SuggestionPayloads : SuggestResolve(1, payload)
  \/ \E input \in {"", "not a url", "https://a"} : AddUrl(input)
  \/ \E url \in {"https://a"} : RemoveUrl(url)
  \/ \E input \in NameInputs : AddGroup(input)
  \/ \E groupId \in 0..MaxClock, confirmed \in BOOLEAN : RemoveGroup(groupId, confirmed)
  \/ \E input \in RenameInputs : RenameGroup(input)
  \/ \E id \in 0..MaxClock : SetGroupId(id)
  \/ \E content \in {"", "text"} : SetTextContext(content)
  \/ \E m \in Modes : SetMode(m)

\* A session in which the user fills the URL lists of the groups: every input
\* of the URL field, given once the suggestions fetch of the previous one has
\* been answered.
NextUrls ==
  \/ RunEffects
  \/ Tick
  \/ Login
  \/ \E payload \in SuggestionPayloads : SuggestResolve(1, payload)
  \/ /\ suggReqs = <<>>
     /\ \/ \E input \in UrlInputs : AddUrl(input)
        \/ \E url \in Urls : RemoveUrl(url)
        \/ \E input \in {" B "} : AddGroup(input)
        \/ \E id \in 0..MaxClock : SetGroupId(id)

\* A session in which the user chats; the context changes through one URL,
\* new groups, group switches and mode switches.
NextChat ==
  \/ Background
  \/ \E input \in {"https://a"} : AddUrl(input)
  \/ \E input \in {" B "} : AddGroup(input)
  \/ \E id \in 0..MaxClock : SetGroupId(id)
  \/ \E m \in {"chat", "image"} : SetMode(m)
  \/ \E input \in QueryInputs : Send(input)
  \/ \E i \in 1..4 : ClickSuggestion(i)
  \/ \E placeholder \in chatReqs, response \in ChatResponses :
       ChatResolve(placeholder, response)
  \/ \E placeholder \in chatReqs, msg \in ErrMsgs : ChatReject(placeholder, msg)

\* A session about the suggestions of one group: the context changes through
\* one URL, pasted text and mode switches; the user sends typed queries and
\* suggestion chips.
NextSuggest ==
  \/ Background
  \/ \E input \in {"https://a"} : AddUrl(input)
  \/ \E url \in {"https://a"} : RemoveUrl(url)
  \/ \E content \in {"", "text"} : SetTextContext(content)
  \/ \E m \in {"chat", "image"} : SetMode(m)
  \/ \E input \in QueryInputs : Send(input)
  \/ \E i \in 1..4 : ClickSuggestion(i)
  \/ \E placeholder \in chatReqs, response \in ChatResponses :
       ChatResolve(placeholder, response)

\* A session at the door: the visitor submits the login form with every kind
\* of input, the probe succeeds or fails, the user switches modes and logs
\* out.
NextSession ==
  \/ RunEffects
  \/ Tick
  \/ \E apiKey \in KeyInputs, email \in EmailInputs : LoginSubmit(apiKey, email)
  \/ \E ok \in BOOLEAN : LoginProbe(ok)
  \/ Logout
  \/ \E m \in Modes : SetMode(m)
  \/ \E input \in {"https://a"} : AddUrl(input)

\* The service at work in an open session: each function of geminiService is
\* called with every input, one invocation at a time, and its requests are
\* answered or rejected in every order; the user switches between the
\* views.
InitGateway ==
  /\ Init
  /\ storage = [urlGroups |-> NullItem, activeUrlGroupId |-> NoId, has_logged_in |-> "true",
                gemini_api_key |-> "key", user_email |-> "u@x"]

NextGateway ==
  \/ RunEffects
  \/ \E m \in Modes : SetMode(m)
  \/ \E urls \in UrlLists, fileContent \in FileContents : getInitialSuggestions(urls, fileContent)
  \/ \E text \in SuggestionTexts : getInitialSuggestionsFulfilled(text)
  \/ \E e \in UpstreamErrors : getInitialSuggestionsRejected(e)
  \/ \E prompt \in Prompts, urls \in UrlLists, file \in FileContexts,
        useWebSearch \in BOOLEAN, useThinking \in BOOLEAN, customPrompt \in CustomPrompts :
       generateContentWithUrlContext(prompt, urls, file, useWebSearch, useThinking, customPrompt)
  \/ \E text \in ChatTexts, metadata \in {"none", "urlMetadata"} :
       generateContentFulfilled(text, metadata)
  \/ \E e \in UpstreamErrors : generateContentRejected(e)
  \/ \E prompt \in ImagePrompts, sourceImage \in SourceImages :
       ImageEditorGenerate(prompt, sourceImage)
  \/ \E parts \in PartSeqs : EditImageFulfilled(parts)
  \/ \E e \in UpstreamErrors : EditImageRejected(e)
  \/ \E images \in GeneratedImages : GenerateImageFulfilled(images)
  \/ \E e \in UpstreamErrors : GenerateImageRejected(e)
  \/ \E topic \in TopicInputs : BookGeneratorGenerate(topic)
  \/ \E text \in OutlineTexts : OutlineFulfilled(text)
  \/ \E e \in UpstreamErrors : OutlineRejected(e)
  \/ \E i \in 1..(MaxChapters + 2), text \in ChapterTexts : ChapterFulfilled(i, text)
  \/ \E i \in 1..(MaxChapters + 2), e \in UpstreamErrors : ChapterRejected(i, e)

\* Page loads: local storage holds any combination of the credential items
\* at the first load; the visitor logs in, logs out and loads the page again.
StartupStores ==
  {[urlGroups |-> NullItem, activeUrlGroupId |-> NoId,
    has_logged_in |-> f, gemini_api_key |-> k, user_email |-> e] :
      f \in {NoItem, "true", "false"}, k \in {NoItem, "key"}, e \in {NoItem, "u@x"}}

InitStartup == \E store \in StartupStores : InitState(store)

NextStartup ==
  \/ RunEffects
  \/ Tick
  \/ Login
  \/ Logout
  \/ Reload

Spec == Init /\ [][Next]_vars

SpecUrls == Init /\ [][NextUrls]_vars

SpecChat == Init /\ [][NextChat]_vars

SpecSuggest == Init /\ [][NextSuggest]_vars

SpecSession == Init /\ [][NextSession]_vars

SpecGateway == InitGateway /\ [][NextGateway]_vars

SpecStartup == InitStartup /\ [][NextStartup]_vars

\* A chat session whose remote calls all settle: the context of one group
\* changes through one URL, the user sends typed queries, and every pending
\* chat request and suggestions fetch resolves or rejects.
ChatSettles ==
  \E placeholder \in chatReqs :
    \/ \E response \in ChatResponses : ChatResolve(placeholder, response)
    \/ \E msg \in ErrMsgs : ChatReject(placeholder, msg)

SuggestSettles ==
  \E i \in 1..(MaxFetches + 1) :
    \/ \E payload \in SuggestionPayloads : SuggestResolve(i, payload)
    \/ \E msg \in ErrMsgs : SuggestReject(i, msg)

NextLive ==
  \/ RunEffects
  \/ Tick
  \/ \E input \in {"https://a"} : AddUrl(input)
  \/ \E url \in {"https://a"} : RemoveUrl(url)
  \/ \E input \in QueryInputs : Send(input)
  \/ ChatSettles
  \/ SuggestSettles

\* React runs the pending effects after every render (weak fairness); a
\* promise continuation runs between renders, so a call that settles does so
\* in one of the settled states that keep recurring (strong fairness).
SpecLive ==
  /\ InitGateway /\ [][NextLive]_vars
  /\ WF_vars(RunEffects)
  /\ SF_vars(ChatSettles)
  /\ SF_vars(SuggestSettles)

\* ---------------------------------------------------------------- claims
GroupIds == 0..MaxClock

NoUrlTwice(groups) ==
  \A i \in DOMAIN groups : \A j, k \in DOMAIN groups[i].urls :
    j # k => groups[i].urls[j] # groups[i].urls[k]

C3_DuplicateReported ==
  [][/\ NoUrlTwice(urlGroups')
     /\ \A input \in Urls :
          (input \in Range(currentUrlsForChat) /\ AddUrl(input))
            => (urlGroups' = urlGroups /\ error' = ErrDuplicate)
     /\ \A input \in Urls :
          (/\ findIdx(urlGroups, activeUrlGroupId) # 0
           /\ input \notin Range(currentUrlsForChat)
           /\ Len(currentUrlsForChat) < MAX_URLS
           /\ AddUrl(input))
            => currentUrlsOf(urlGroups', activeUrlGroupId) = Append(currentUrlsForChat, input)]_vars

\* C3 amended: adding a URL the active group already lists changes no group
\* and reports the duplicate error while the group is below the limit and the
\* limit error when it is full; no list holds a URL twice; a URL the active
\* group does not list is appended to it while it is below the limit.
C3_DuplicateOrLimit ==
  [][/\ NoUrlTwice(urlGroups')
     /\ \A input \in Urls :
          (input \in Range(currentUrlsForChat) /\ AddUrl(input))
            => /\ urlGroups' = urlGroups
               /\ error' = IF Len(currentUrlsForChat) < MAX_URLS THEN ErrDuplicate ELSE ErrLimit
     /\ \A input \in Urls :
          (/\ findIdx(urlGroups, activeUrlGroupId) # 0
           /\ input \notin Range(currentUrlsForChat)
           /\ Len(currentUrlsForChat) < MAX_URLS
           /\ AddUrl(input))
            => currentUrlsOf(urlGroups', activeUrlGroupId) = Append(currentUrlsForChat, input)]_vars

\* C3 witness: the same URL is listed in two different groups and the form
\* shows the duplicate error for the active one.
C3_Witness ==
  /\ ChatView
  /\ error = ErrDuplicate
  /\ \E i, j \in DOMAIN urlGroups :
       /\ urlGroups[i].id # urlGroups[j].id
       /\ urlGroups[i].id = activeUrlGroupId
       /\ \E u \in Urls : u \in Range(urlGroups[i].urls) /\ u \in Range(urlGroups[j].urls)

\* C4: removeGroup with one group changes nothing; a confirmed removeGroup
\* with two or more groups removes exactly that group, and the active id
\* becomes the id of the first remaining group when the removed group was the
\* active one and is unchanged otherwise.
C4_RemoveExactlyThatGroup ==
  [][\A groupId \in GroupIds, confirmed \in BOOLEAN :
       RemoveGroup(groupId, confirmed) =>
         IF Len(urlGroups) = 1
         THEN UNCHANGED <<urlGroups, activeUrlGroupId>>
         ELSE confirmed =>
                /\ urlGroups' = removeAt(urlGroups, findIdx(urlGroups, groupId))
                /\ activeUrlGroupId' = IF activeUrlGroupId = groupId
                                       THEN urlGroups'[1].id ELSE activeUrlGroupId]_vars

\* C5: no two groups of the collection have the same id.
C5_UniqueGroupIds ==
  \A i, j \in DOMAIN urlGroups : i # j => urlGroups[i].id # urlGroups[j].id

\* C6: once the startup effects have run, the collection equals the stored
\* collection when local storage held a non-empty array at load, and is one
\* fresh group without URLs when the item was absent, unparsable or empty.
C6_Rehydrated ==
  (Settled /\ boot.kept) =>
    IF boot.urlGroups.tag = "array" /\ Len(boot.urlGroups.v) > 0
    THEN urlGroups = boot.urlGroups.v
    ELSE Len(urlGroups) = 1 /\ urlGroups[1].urls = <<>>

\* C7: once the effects have run, the 'urlGroups' item of local storage is
\* the serialization of the collection and, when the active id is not empty,
\* the 'activeUrlGroupId' item is the active id.
C7_StorageMirrorsState ==
  Settled =>
    /\ storage.urlGroups = Stringify(urlGroups)
    /\ activeUrlGroupId # NoId => storage.activeUrlGroupId = activeUrlGroupId

\* C7 witness: after user mutations (a second group, a URL) the effects have
\* run and both items match.
C7_Witness ==
  /\ Settled /\ ~boot.kept
  /\ Len(urlGroups) = 2
  /\ \E i \in DOMAIN urlGroups : urlGroups[i].urls # <<>>
  /\ storage.urlGroups = Stringify(urlGroups)
  /\ storage.activeUrlGroupId = activeUrlGroupId

\* C8: the effect pass that follows a change of the active group id, or a
\* change of the mode into chat, leaves a transcript of exactly one message,
\* sent by system, whose text names the active group.
C8_WelcomeReset ==
  [][(/\ RunEffects
      /\ "activeUrlGroupId" \in dirty \/ ("mode" \in dirty /\ mode = "chat"))
       => /\ Len(chatMessages') = 1
          /\ chatMessages'[1].sender = "system"
          /\ \A i \in DOMAIN urlGroups :
               (i = findIdx(urlGroups, activeUrlGroupId))
                 => chatMessages'[1].text[2] = urlGroups[i].name]_vars

\* C8 witness: a request is still in flight, so a user message and its
\* placeholder had been appended, and the transcript is the welcome message
\* alone; no group lists a URL, so the reset came from a change of the active
\* id or from the mode changing into chat.
C8_Witness ==
  /\ ChatView
  /\ isLoading
  /\ Len(chatMessages) = 1
  /\ chatMessages[1].sender = "system"
  /\ chatMessages[1].text[2] = activeGroupName(urlGroups, activeUrlGroupId)
  /\ \A i \in DOMAIN urlGroups : urlGroups[i].urls = <<>>

\* the message a completion puts in the place of the placeholder: the text
\* is the response text (or the notice shown for an empty response text)
C9_Answer(old, response) ==
  [old EXCEPT !.text = <<IF response.text # "" THEN response.text
                          ELSE "I received an empty response.">>,
              !.isLoading = FALSE, !.urlContext = response.urlContextMetadata]

C9_Failure(old, msg) ==
  [old EXCEPT !.text = <<"Error: ", msg>>, !.sender = "system", !.isLoading = FALSE]

\* C9: an accepted send appends a user message and a loading model
\* placeholder; the completion of the request replaces the placeholder in
\* place, by a model message with the response text and URL metadata or by a
\* system message 'Error: <message>', loading false, and changes no other
\* message (a message that is not loading is not the placeholder).
C9_PlaceholderReplaced ==
  [][/\ \A input \in QueryInputs :
          (Send(input) /\ sendAccepted(trim(input)))
            => /\ Len(chatMessages') = Len(chatMessages) + 2
               /\ SubSeq(chatMessages', 1, Len(chatMessages)) = chatMessages
               /\ chatMessages'[Len(chatMessages) + 1].sender = "user"
               /\ chatMessages'[Len(chatMessages) + 1].text = <<trim(input)>>
               /\ chatMessages'[Len(chatMessages) + 2].sender = "model"
               /\ chatMessages'[Len(chatMessages) + 2].isLoading
     /\ \A placeholder \in chatReqs, response \in ChatResponses :
          ChatResolve(placeholder, response)
            => /\ Len(chatMessages') = Len(chatMessages)
               /\ \A j \in DOMAIN chatMessages :
                    chatMessages'[j] = IF chatMessages[j].id = placeholder.id /\ chatMessages[j].isLoading
                                       THEN C9_Answer(chatMessages[j], response)
                                       ELSE chatMessages[j]
     /\ \A placeholder \in chatReqs, msg \in ErrMsgs :
          ChatReject(placeholder, msg)
            => /\ Len(chatMessages') = Len(chatMessages)
               /\ \A j \in DOMAIN chatMessages :
                    chatMessages'[j] = IF chatMessages[j].id = placeholder.id /\ chatMessages[j].isLoading
                                       THEN C9_Failure(chatMessages[j], msg)
                                       ELSE chatMessages[j]]_vars

\* C10: a chat request is issued only while no chat request and no
\* suggestions fetch is outstanding, and a send attempted while one is
\* outstanding leaves the transcript, the suggestions and the two loading
\* flags unchanged.
C10_NoConcurrentRequest ==
  [][/\ (chatReqs' \ chatReqs # {}) => (chatReqs = {} /\ suggReqs = <<>>)
     /\ \A input \in QueryInputs :
          (Send(input) /\ (chatReqs # {} \/ suggReqs # <<>>))
            => UNCHANGED <<chatMessages, initialQuerySuggestions, isLoading,
                           isFetchingSuggestions>>]_vars

\* C11: the response to a superseded suggestions fetch is never committed,
\* and once all fetches have completed a list set from a response is the one
\* set from the response to the fetch of the latest context change.
C11_StaleFetchIgnored ==
  [][/\ \A i \in 1..(MaxFetches + 1), payload \in SuggestionPayloads :
          (SuggestResolve(i, payload) /\ suggReqs[i] = "stale")
            => initialQuerySuggestions' = initialQuerySuggestions
     /\ (Settled' /\ suggReqs' = <<>> /\ suggFrom' # "none") => suggFrom' = "latest"]_vars

\* C12: the suggestion list never has more than 4 entries, it is empty after
\* the effect pass that follows a change of the mode, of the active URL list
\* or of the local context, and it is empty after every accepted send.
C12_SuggestionsBoundedAndCleared ==
  [][/\ Len(initialQuerySuggestions') <= 4
     /\ (RunEffects /\ dirty \cap {"mode", "currentUrlsForChat", "fileContext"} # {})
          => initialQuerySuggestions' = <<>>
     /\ \A input \in QueryInputs :
          (Send(input) /\ sendAccepted(trim(input))) => initialQuerySuggestions' = <<>>
     /\ \A i \in 1..4 :
          (ClickSuggestion(i) /\ sendAccepted(initialQuerySuggestions[i]))
            => initialQuerySuggestions' = <<>>]_vars

\* C12 witness: a suggestion chip has been sent (the list had entries, cut to
\* 4 from a response with more) and the list is empty while the request is in
\* flight.
C12_Witness ==
  /\ ChatView
  /\ isLoading
  /\ initialQuerySuggestions = <<>>
  /\ \E j \in DOMAIN chatMessages :
       chatMessages[j].sender = "user" /\ chatMessages[j].text = <<"s">>

CredentialFields == <<storage.has_logged_in, storage.gemini_api_key, storage.user_email>>

\* C18: submitting the form (valid or not) and a failed probe leave local
\* storage, the key mirror and the logged-in state unchanged; only the step
\* of a successful probe stores the three credential fields and opens the
\* session; logout removes the three fields, clears the mirror and closes the
\* session.
C18_CredentialLifecycle ==
  [][/\ \A apiKey \in KeyInputs, email \in EmailInputs :
          LoginSubmit(apiKey, email) => UNCHANGED <<storage, apiKeyMirror, isLoggedIn>>
     /\ LoginProbe(FALSE) => UNCHANGED <<storage, apiKeyMirror, isLoggedIn>>
     /\ LoginProbe(TRUE)
          => /\ CredentialFields' = <<"true", loginForm.apiKey, loginForm.email>>
             /\ loginForm.apiKey # "" /\ hasAt(loginForm.email)
             /\ apiKeyMirror' = loginForm.apiKey
             /\ isLoggedIn'
     /\ (CredentialFields' # CredentialFields /\ storage'.has_logged_in = "true")
          => (loginForm.isLoading /\ isLoggedIn')
     /\ (isLoggedIn' /\ ~isLoggedIn /\ "mount" \notin dirty)
          => (loginForm.isLoading /\ CredentialFields' = <<"true", loginForm.apiKey, loginForm.email>>)
     /\ Logout
          => /\ CredentialFields' = <<NoItem, NoItem, NoItem>>
             /\ apiKeyMirror' = NoItem
             /\ ~isLoggedIn']_vars

\* C18 witness: the session was opened by a successful probe with the typed
\* key, which is the stored one.
C18_Witness ==
  /\ isLoggedIn
  /\ userEmail = "u@x"
  /\ apiKeyMirror = "new key"
  /\ CredentialFields = <<"true", "new key", "u@x">>

\* C13: getInitialSuggestions called with an empty URL list and no local
\* context text issues no remote call and returns the fixed payload with
\* exactly one canned suggestion; with a URL or a context text it issues
\* exactly one remote call.
C13_SuggestionsShortCircuit ==
  [][\A urls \in UrlLists, fileContent \in FileContents :
       getInitialSuggestions(urls, fileContent) =>
         IF urls = <<>> /\ fileContent \in {NullContent, ""}
         THEN /\ gwRequests' = <<>>
              /\ gwOutcome'.status = "returned"
              /\ gwOutcome'.payload.kind = "json"
              /\ gwOutcome'.payload.items
                   = <<"Add some URLs or a file to get topic suggestions.">>
         ELSE /\ Len(gwRequests') = 1
              /\ gwRequests'[1].purpose = "suggest"
              /\ gwOutcome'.status = "pending"]_vars

\* a call without URLs and with the empty text has returned the canned
\* payload and issued no request
C13_Witness ==
  /\ gwCall.op = "idle"
  /\ gwRequests = <<>>
  /\ gwOutcome.status = "returned"
  /\ gwOutcome.payload = CannedSuggestions

\* the chapter requests of the latest generateBook call, those that failed
\* (rejected, or answered without text) and those that succeeded
ChapterRequests == {i \in DOMAIN gwRequests : gwRequests[i].purpose = "chapter"}
FailedChapters ==
  {i \in ChapterRequests :
     \/ gwRequests[i].state = "rejected"
     \/ gwRequests[i].state = "fulfilled" /\ gwRequests[i].text = MsgChapterFailed}
SucceededChapters ==
  {i \in ChapterRequests :
     gwRequests[i].state = "fulfilled" /\ gwRequests[i].text # MsgChapterFailed}

\* C14: when the content request of exactly one chapter failed (rejected or
\* answered without text) and the others succeeded, generateBook has returned
\* a book with one chapter per outline entry, the failed chapter's content
\* being the placeholder and the others' their responses; the operation has
\* not failed.
C14_ChapterFailureDegrades ==
  (/\ Cardinality(FailedChapters) = 1
   /\ FailedChapters \cup SucceededChapters = ChapterRequests)
  => /\ gwOutcome.status = "returned"
     /\ Len(gwOutcome.chapters) = Cardinality(ChapterRequests)
     /\ \A i \in ChapterRequests :
          /\ gwOutcome.chapters[i - 1].title = gwRequests[i].contents[2]
          /\ gwOutcome.chapters[i - 1].content
               = IF i \in FailedChapters THEN MsgChapterFailed ELSE gwRequests[i].text

\* C15: generateBook issues one chapter request per outline chapter, in the
\* outline's order; it returns only when every chapter request has been
\* fulfilled, and the returned book's chapters carry the outline's titles in
\* the outline's order, whatever the order in which the requests settled.
C15_ChaptersJoinedInOutlineOrder ==
  [][/\ \A text \in OutlineTexts :
          (OutlineFulfilled(text) /\ gwCall'.op = "chapters")
            => /\ Len(gwRequests') = Len(text.chapters) + 1
               /\ gwCall'.titles = text.chapters
               /\ \A k \in DOMAIN text.chapters :
                    /\ gwRequests'[k + 1].purpose = "chapter"
                    /\ gwRequests'[k + 1].contents = <<gwCall.topic, text.chapters[k]>>
     /\ (gwCall.op = "chapters" /\ gwOutcome'.status = "returned")
          => /\ \A i \in DOMAIN gwRequests' : gwRequests'[i].state = "fulfilled"
             /\ Len(gwOutcome'.chapters) = Len(gwCall.titles)
             /\ \A k \in DOMAIN gwCall.titles :
                  /\ gwOutcome'.chapters[k].title = gwCall.titles[k]
                  /\ gwOutcome'.chapters[k].content = gwRequests'[k + 1].text]_vars

\* a book of two different chapters has been returned whose second chapter
\* settled first
C15_Witness ==
  /\ gwOutcome.status = "returned"
  /\ Len(gwOutcome.chapters) = 2
  /\ gwOutcome.chapters[1] = [title |-> "c2", content |-> <<"x">>]
  /\ gwOutcome.chapters[2] = [title |-> "c1", content |-> <<"y">>]
  /\ gwCall.settled = <<chapterRequest(2), chapterRequest(1)>>

\* the image parts of a part sequence
ImageParts(parts) == {i \in DOMAIN parts : parts[i].kind = "image"}

\* C16: editImage given a response with no image part fails with an error
\* whose message says the model did not return an image and returns no
\* result object; in the Image Studio that made the call the result stays
\* null and the error is set.
C16_NoImageFails ==
  [][\A parts \in PartSeqs :
       (EditImageFulfilled(parts) /\ ImageParts(parts) = {})
         => /\ gwOutcome'.status = "thrown"
            /\ includes(gwOutcome'.message, MsgNoImage)
            /\ gwOutcome'.image = ""
            /\ imageEditor.awaiting
                 => /\ imageEditor.result.isNull
                    /\ imageEditor'.result.isNull
                    /\ imageEditor'.error = gwOutcome'.message
                    /\ ~imageEditor'.isLoading]_vars

\* the Image Studio shows the error of an edit whose response held text only
C16_Witness ==
  /\ mode = "image"
  /\ Len(gwRequests) = 1
  /\ gwRequests[1].purpose = "edit"
  /\ gwRequests[1].state = "fulfilled"
  /\ Len(gwRequests[1].parts) = 1
  /\ gwRequests[1].parts[1].text = "t1"
  /\ gwOutcome.status = "thrown"
  /\ imageEditor.result.isNull
  /\ imageEditor.error = <<"Image editing failed: ", MsgNoImage>>
  /\ ~imageEditor.isLoading

\* the first image part of a part sequence that has one, and the texts of
\* its text parts in order
FirstImage(parts) ==
  parts[CHOOSE i \in ImageParts(parts) : \A j \in ImageParts(parts) : i <= j]
ConcatText(parts) ==
  LET texts == SelectSeq(parts, LAMBDA p : p.kind = "text" /\ p.text # "")
  IN [i \in DOMAIN texts |-> texts[i].text]

\* C17: for every response part sequence with at least one image part (each
\* image part carrying bytes), editImage returns the bytes and the declared
\* mime type of the first image part ('image/png' when that part declares
\* none) and the concatenation, in order, of all text parts (the fixed
\* sentence of editImage when there is no text).
C17_FirstImagePart ==
  [][\A parts \in PartSeqs :
       (/\ EditImageFulfilled(parts)
        /\ ImageParts(parts) # {}
        /\ \A i \in ImageParts(parts) : parts[i].data # "")
         => /\ gwOutcome'.status = "returned"
            /\ gwOutcome'.image = FirstImage(parts).data
            /\ gwOutcome'.mimeType = IF FirstImage(parts).mimeType = "" THEN "image/png"
                                     ELSE FirstImage(parts).mimeType
            /\ gwOutcome'.text = IF ConcatText(parts) = <<>>
                                 THEN <<"Image edited successfully.">>
                                 ELSE ConcatText(parts)]_vars

\* the four messages of a failed chat completion are pairwise distinct, as is
\* the catch-all for a thrown value that is not an Error
ChatMessagesDistinct ==
  \A m \in UpstreamMessages :
    Cardinality({MsgInvalidKey, MsgQuota, MsgPassthrough(m), MsgCatchAll(m), MsgUnknown}) = 5

\* the generic catch-all for the rejection e: with the upstream message, or
\* the unknown-error sentence when e is not an Error
ChatCatchAll(e) == IF e.isError THEN MsgCatchAll(e.message) ELSE MsgUnknown

\* C19 as stated: a failed contextual chat completion issues exactly one
\* remote call and raises invalid-credential when the upstream message
\* contains 'API key not valid', else quota-exceeded when it contains
\* 'quota', else the passthrough for a GoogleGenAIError, else the catch-all.
C19_ErrorPriority ==
  [][\A e \in UpstreamErrors :
       generateContentRejected(e)
         => /\ Len(gwRequests') = 1
            /\ gwCall'.op = "idle"
            /\ gwOutcome'.status = "thrown"
            /\ gwOutcome'.message
                 = IF includes(e.message, "API key not valid") THEN MsgInvalidKey
                   ELSE IF includes(e.message, "quota") THEN MsgQuota
                   ELSE IF e.type = "GoogleGenAIError" THEN MsgPassthrough(e.message)
                   ELSE ChatCatchAll(e)
            /\ ChatMessagesDistinct]_vars

\* C19 (amended): as above, the passthrough being raised for a
\* GoogleGenAIError with a non-empty message; one with an empty message gets
\* the catch-all.
C19_ErrorPriorityNonEmpty ==
  [][\A e \in UpstreamErrors :
       generateContentRejected(e)
         => /\ Len(gwRequests') = 1
            /\ gwRequests'[1].state = "rejected"
            /\ gwCall'.op = "idle"
            /\ gwOutcome'.status = "thrown"
            /\ gwOutcome'.message
                 = IF includes(e.message, "API key not valid") THEN MsgInvalidKey
                   ELSE IF includes(e.message, "quota") THEN MsgQuota
                   ELSE IF e.type = "GoogleGenAIError" /\ e.message # <<>>
                   THEN MsgPassthrough(e.message)
                   ELSE ChatCatchAll(e)
            /\ ChatMessagesDistinct]_vars

\* a chat completion has failed with the catch-all for an empty upstream
\* message, after its one request was rejected
C19_Witness ==
  /\ Len(gwRequests) = 1
  /\ gwRequests[1].purpose = "chat"
  /\ gwRequests[1].state = "rejected"
  /\ gwOutcome.status = "thrown"
  /\ gwOutcome.message = MsgCatchAll(<<>>)

\* C20: every contextual chat request carries exactly one augmentation tool,
\* the web-search tool when the web-search toggle is on and the URL-context
\* tool when it is off, for every prompt, URL list, local context, thinking
\* toggle and custom prompt.
C20_ExactlyOneTool ==
  [][gwCall'.op = "chat" =>
       \A prompt \in Prompts, urls \in UrlLists, file \in FileContexts,
          useWebSearch \in BOOLEAN, useThinking \in BOOLEAN, customPrompt \in CustomPrompts :
         generateContentWithUrlContext(prompt, urls, file, useWebSearch, useThinking, customPrompt)
           => /\ Len(gwRequests') = 1
              /\ gwRequests'[1].purpose = "chat"
              /\ Cardinality(gwRequests'[1].tools) = 1
              /\ gwRequests'[1].tools = IF useWebSearch THEN {"googleSearch"}
                                        ELSE {"urlContext"}]_vars

\* a chat request with the web-search tool, thinking off, a custom prompt, a
\* file and two URLs is in flight
C20_Witness ==
  /\ gwCall.op = "chat"
  /\ Len(gwRequests) = 1
  /\ gwRequests[1].tools = {"googleSearch"}
  /\ gwRequests[1].thinkingBudget = "0"
  /\ gwRequests[1].contents[1] = "be brief"
  /\ Len(gwRequests[1].contents) = 9

\* the collection the load of the page rehydrates: the stored one when local
\* storage held a non-empty array at load (C6), the one in memory otherwise
C21_Rehydrated ==
  IF boot.urlGroups.tag = "array" /\ Len(boot.urlGroups.v) > 0
  THEN boot.urlGroups.v ELSE urlGroups

\* C21: once the startup effects have run, the active group id is the id
\* stored under 'activeUrlGroupId' when a group with that id is in the
\* rehydrated collection, and otherwise the id of the first group of the
\* collection (empty only if there is no group).
C21_ActiveIdAfterStartup ==
  (Settled /\ boot.kept) =>
    IF boot.activeUrlGroupId # NoId /\ some(C21_Rehydrated, boot.activeUrlGroupId)
    THEN activeUrlGroupId = boot.activeUrlGroupId
    ELSE IF urlGroups = <<>> THEN activeUrlGroupId = NoId
         ELSE activeUrlGroupId = urlGroups[1].id

\* the transcript new keeps the messages of old at their positions, by id
C22_GrowsAtEnd(old, new) ==
  /\ Len(new) >= Len(old)
  /\ \A j \in DOMAIN old : new[j].id = old[j].id

\* C22: between two transcript resets the transcript only grows at its end:
\* every step other than a reset keeps the ids and the positions of the
\* messages already present, and a reset is a step of the effects that
\* follows a change of the active group id, the group collection, the local
\* context or the mode, while the mode is chat.
C22_AppendOnlyBetweenResets ==
  [][\/ C22_GrowsAtEnd(chatMessages, chatMessages')
     \/ /\ RunEffects
        /\ mode = "chat"
        /\ dirty \cap {"activeUrlGroupId", "urlGroups", "fileContext", "mode"} # {}
        /\ Len(chatMessages') = 1
        /\ chatMessages'[1].sender = "system"]_vars

\* two sends have been answered in place behind the welcome message, the
\* first with an answer and the second with an error
C22_Witness ==
  /\ ChatView
  /\ Len(chatMessages) = 5
  /\ chatMessages[1].sender = "system"
  /\ chatMessages[2].sender = "user"
  /\ chatMessages[3].sender = "model" /\ ~chatMessages[3].isLoading
  /\ chatMessages[4].sender = "user"
  /\ chatMessages[5].sender = "system" /\ chatMessages[5].text[1] = "Error: "
  /\ chatMessages[5].id.k = "model"

\* C23: when the outline response of generateBook is not JSON, bare or
\* inside a code fence, the operation fails with the 'could not generate a
\* valid book outline' error, no chapter request is issued and no book is
\* produced; in the Book Publisher that made the call the book stays null,
\* the error is set and the generating flag is cleared.
C23_OutlineParseFailure ==
  [][\A text \in OutlineTexts :
       (OutlineFulfilled(text) /\ text.body \in {"", "garbage"})
         => /\ gwOutcome'.status = "thrown"
            /\ gwOutcome'.message = <<"Could not generate a valid book outline.">>
            /\ gwOutcome'.chapters = <<>>
            /\ Len(gwRequests') = 1
            /\ gwRequests'[1].purpose = "outline"
            /\ gwCall'.op = "idle"
            /\ bookGenerator.awaiting
                 => /\ bookGenerator.book.isNull
                    /\ bookGenerator'.book.isNull
                    /\ bookGenerator'.error = gwOutcome'.message
                    /\ ~bookGenerator'.isGenerating]_vars

\* the Book Publisher shows the outline error after the outline request was
\* answered, and no chapter request was issued
C23_Witness ==
  /\ mode = "book"
  /\ Len(gwRequests) = 1
  /\ gwRequests[1].purpose = "outline"
  /\ gwRequests[1].state = "fulfilled"
  /\ gwOutcome.status = "thrown"
  /\ bookGenerator.book.isNull
  /\ bookGenerator.error = MsgOutline
  /\ ~bookGenerator.isGenerating

\* C24: once the startup effects have run, the session is logged-in if and
\* only if local storage held, at the load of the page, the login flag
\* 'true' together with a non-empty API key and a non-empty email; in every
\* other case, a load after logout included, the session is not logged-in
\* and the key mirror is not set.
C24_StartupLogin ==
  (Settled /\ boot.kept) =>
    IF boot.has_logged_in = "true" /\ boot.gemini_api_key # "" /\ boot.user_email # ""
    THEN isLoggedIn /\ apiKeyMirror = boot.gemini_api_key /\ userEmail = boot.user_email
    ELSE ~isLoggedIn /\ apiKeyMirror = NoItem

\* the page has been loaded again (the groups item it found is one the app
\* had written) with no credential item left, as a logout leaves them, and
\* the session is not logged-in
C24_Witness ==
  /\ Settled /\ boot.kept
  /\ boot.urlGroups.tag = "array"
  /\ boot.has_logged_in = NoItem /\ boot.gemini_api_key = NoItem /\ boot.user_email = NoItem
  /\ ~isLoggedIn
  /\ apiKeyMirror = NoItem

\* C25: a rejected input mutates nothing: addUrl with an empty or malformed
\* URL, renameGroup with a blank name and addGroup with a blank name leave
\* the group collection, the active group id, the local context, the
\* transcript and the suggestion list unchanged; an accepted renameGroup
\* changes only the name of the target group (the active one).
C25_RejectedInputMutatesNothing ==
  [][/\ \A input \in {"", "not a url"} :
          AddUrl(input) => UNCHANGED <<urlGroups, activeUrlGroupId, fileContext,
                                       chatMessages, initialQuerySuggestions>>
     /\ \A input \in NameInputs :
          (AddGroup(input) /\ input = "")
            => UNCHANGED <<urlGroups, activeUrlGroupId, fileContext,
                           chatMessages, initialQuerySuggestions>>
     /\ \A input \in RenameInputs :
          RenameGroup(input) =>
            IF input = " "
            THEN UNCHANGED <<urlGroups, activeUrlGroupId, fileContext,
                             chatMessages, initialQuerySuggestions>>
            ELSE /\ UNCHANGED <<activeUrlGroupId, fileContext, chatMessages,
                                initialQuerySuggestions>>
                 /\ Len(urlGroups') = Len(urlGroups)
                 /\ \A i \in DOMAIN urlGroups :
                      urlGroups'[i] = IF i = findIdx(urlGroups, activeUrlGroupId)
                                      THEN [urlGroups[i] EXCEPT !.name = "C"]
                                      ELSE urlGroups[i]]_vars

\* C26: when every remote call eventually resolves or rejects, a chat
\* loading flag that is set is eventually cleared and a suggestion-fetch
\* flag that is set is eventually cleared, whether the call succeeded or
\* failed, so a later send is not blocked for ever.
C26_FlagsEventuallyCleared ==
  /\ isLoading ~> ~isLoading
  /\ isFetchingSuggestions ~> ~isFetchingSuggestions

\* C26 witness: a send and a suggestions fetch have both failed and both
\* flags are clear again, so the next send is accepted.
C26_Witness ==
  /\ Settled /\ ~isLoading /\ ~isFetchingSuggestions
  /\ chatReqs = {} /\ suggReqs = <<>>
  /\ \E j \in DOMAIN chatMessages :
       chatMessages[j].id.k = "model" /\ chatMessages[j].sender = "system"
  /\ \E j \in DOMAIN chatMessages : chatMessages[j].id.k = "sys-err-suggestion-fetch"
  /\ sendAccepted("q")

\* C27: in every state where the effects have settled (already when the
\* persistence effect, the one that repairs the active id, has nothing left
\* to run for), the active group id is the id of a group of the collection,
\* whatever addGroup, removeGroup, renameGroup, group-switch, addUrl and
\* removeUrl operations came before.
C27_ActiveIdNamesAGroup ==
  (Settled \/ ~depsChanged(persistGroupsDeps))
    => \E i \in DOMAIN urlGroups : urlGroups[i].id = activeUrlGroupId

\* C27 witness: the two groups created in the same millisecond were removed
\* together, the persistence effect created a group for the empty collection
\* and made it the active one.
C27_Witness ==
  /\ Settled /\ ~isAppLoading
  /\ Len(urlGroups) = 1 /\ urlGroups[1].name = "My Knowledge Base"
  /\ activeUrlGroupId = urlGroups[1].id

\* the request of placeholder p is pending and the transcript it was put in
\* has been replaced since: the placeholder is no longer there
C28_Superseded(p) ==
  p \in chatReqs /\ ~\E j \in DOMAIN chatMessages : chatMessages[j] = p

\* C28: a chat request that resolves or fails after the transcript was reset
\* by a context change leaves the new transcript unchanged: the reset
\* transcript has no message with the superseded placeholder's id, the late
\* completion replaces nothing and adds nothing, and it only clears the
\* loading flag.
C28_LateCompletionChangesNothing ==
  [][\A p \in chatReqs :
       (C28_Superseded(p) /\ chatReqs' = chatReqs \ {p}) =>
         /\ \A j \in DOMAIN chatMessages : chatMessages[j].id # p.id
         /\ chatMessages' = chatMessages
         /\ ~isLoading'
         /\ UNCHANGED <<urlGroups, activeUrlGroupId, fileContext, isFetchingSuggestions,
                        initialQuerySuggestions, mode, error, storage, suggReqs>>]_vars

\* C28 witness: a send is pending, a context change has replaced the
\* transcript by the welcome message alone, and the effects have settled, so
\* that the completion arrives late.
C28_Witness ==
  /\ ChatView /\ isLoading
  /\ \E p \in chatReqs : C28_Superseded(p)
  /\ Len(chatMessages) = 1 /\ chatMessages[1].id.k = "system-welcome"

\* the positions of the messages marked loading
C29_LoadingMessages == {j \in DOMAIN chatMessages : chatMessages[j].isLoading}

\* C29: in every reachable state the transcript contains at most one message
\* marked loading, and whenever the chat loading flag is false it contains
\* none.
C29_AtMostOneLoadingMessage ==
  /\ Cardinality(C29_LoadingMessages) <= 1
  /\ ~isLoading => C29_LoadingMessages = {}

\* C29 witness: a second send is pending after a first one was answered: the
\* flag is set and the placeholder of the second send is the only message
\* marked loading.
C29_Witness ==
  /\ isLoading /\ Cardinality(C29_LoadingMessages) = 1
  /\ \E j \in DOMAIN chatMessages :
       chatMessages[j].sender = "model" /\ ~chatMessages[j].isLoading
  /\ chatMessages[Len(chatMessages)].isLoading

\* C30: a suggestions fetch that fails appends exactly one system message
\* with text 'Error: <message>' at the end of the transcript, leaves the
\* suggestion list empty and clears the suggestion-fetch flag; a fetch whose
\* response is not parsable JSON or has no 'suggestions' array adds no
\* message and yields an empty suggestion list.
C30_FailedSuggestionsFetch ==
  [][/\ \A i \in 1..(MaxFetches + 1), msg \in ErrMsgs :
          SuggestReject(i, msg) =>
            /\ Len(chatMessages') = Len(chatMessages) + 1
            /\ SubSeq(chatMessages', 1, Len(chatMessages)) = chatMessages
            /\ chatMessages'[Len(chatMessages')].sender = "system"
            /\ chatMessages'[Len(chatMessages')].text = <<"Error: ", msg>>
            /\ initialQuerySuggestions' = <<>>
            /\ ~isFetchingSuggestions'
     /\ \A i \in 1..(MaxFetches + 1), payload \in SuggestionPayloads :
          (payload.kind # "json" /\ SuggestResolve(i, payload)) =>
            /\ chatMessages' = chatMessages
            /\ initialQuerySuggestions' = <<>>]_vars

====
